---------------------------- MODULE Spec2Model ----------------------------
(***************************************************************************)
(* peak-finder-app: LineGroup (src/peak_finder/line_group.py).             *)
(*                                                                         *)
(* LineGroup.compute() clusters the anomalies of the channels of one       *)
(* property group into base AnomalyGroups (the scan of lines 331-367) and, *)
(* when n_groups > 1, hands them to LineGroup.group_n_groups(), which      *)
(* builds composites of n_groups base groups (lines 234-306).              *)
(*                                                                         *)
(* Conventions of the model                                                *)
(*  - An anomaly is a record [ch, peak, start, end]: ch is the index of    *)
(*    its channel in the property group (full_channels), peak/start/end    *)
(*    are indices into the resampled line.  The resampled locations are    *)
(*    uniform with step `sampling`, so the peak position of an anomaly is  *)
(*    peak * sampling (locs[anom.peak]).                                   *)
(*  - A group is a record [id, anomalies, subs]: id stands for the         *)
(*    identity of the Python object, anomalies is the sequence handed to   *)
(*    the constructor and subs the set handed as `subgroups` (the          *)
(*    identities of base group objects, empty for a base group).  Only     *)
(*    base groups are ever members of such a set, so composites, whose     *)
(*    identity nothing reads, all carry id 0.                              *)
(*  - Sequences are 1-based: index k of the model is index k-1 of the      *)
(*    code.  full_group_ids keeps the code's values (-1 = not labelled).   *)
(*  - max_separation / sampling is a float in the code; the model compares *)
(*    x < a - max_separation / sampling as                                 *)
(*    x * sampling < a * sampling - max_separation, which is the same      *)
(*    order on integers.                                                   *)
(*  - sampling = 0 stands for `position.sampling is None`.                 *)
(***************************************************************************)
EXTENDS Integers, Sequences, FiniteSets, TLC

VARIABLES
    full_anomalies,   \* get_anomaly_attributes: the anomalies, channel-major
    max_migration,    \* LineGroup._max_migration
    min_channels,     \* LineGroup._min_channels
    n_groups,         \* LineGroup._n_groups
    max_separation,   \* LineGroup._max_separation
    sampling,         \* LinePosition.sampling (0: None)
    tie,              \* order np.argsort gives to equal starts in this build
    pc,               \* position in compute() / group_n_groups()
    ind,              \* compute(): loop index of the scan (1-based)
    group_id,         \* compute(): group_id
    full_group_ids,   \* compute(): full_group_ids
    groups,           \* compute() / group_n_groups(): the local list `groups`
    passes,           \* group_n_groups(): iterations of the merge loop done
    next_id,          \* next fresh object identity
    merge_calls,      \* number of calls of group_n_groups() so far
    seeds,            \* history: the seed index of every emitted base group
    outputs,          \* history: the list returned by every group_n_groups() call
    _groups,          \* LineGroup._groups: << >> is None, << l >> holds the list l
    compute_calls,    \* number of calls of compute() so far
    _channels,        \* LineGroup._channels: << >> is None, << a >> the anomalies read
    results,          \* history: the list returned by every access of .groups
    near_peaks,       \* the array returned by a direct call of get_near_peaks()
    _lines,           \* PeakFinder._lines: << >> is None, << d >> holds the dict d
    objects,          \* dcc.Store "objects": << >> is None
    layout,           \* values of line_field, line_id, n_lines, group_name
    line_ids,         \* dcc.Store "line_ids": << >> is None, << l >> the list l
    line_indices,     \* dcc.Store "line_indices": << >> is None
    update_from_property_groups, \* dcc.Store of that name (FALSE: None or False)
    update_computation, \* dcc.Store "update_computation"
    triggers,         \* inputs that have triggered the pending compute_line call
    ac_triggers,      \* inputs that have triggered the pending update_active_channels
    li_triggers,      \* inputs that have triggered the pending get_line_indices
    pending,          \* the same for the three other callbacks
    running,          \* the calls of compute_line in progress
    started,          \* number of calls of compute_line that have asked the driver
    acted,            \* history: number of actions of the user and of assignments of lines
    cause,            \* history: the pending callbacks come from a change of colour
    calls             \* history: the call of get_line_ids, the return of compute_line

vars == << full_anomalies, max_migration, min_channels, n_groups,
           max_separation, sampling, tie, pc, ind, group_id, full_group_ids,
           groups, passes, next_id, merge_calls, seeds, outputs,
           _groups, _channels, compute_calls, results, near_peaks,
           _lines, objects, layout, line_ids, line_indices,
           update_from_property_groups, update_computation,
           triggers, ac_triggers, li_triggers, pending, running, started,
           cause, acted, calls >>

---------------------------------------------------------------------------
(* Bounds of the model. *)

MaxPos == 2           \* resampled line indices 0 .. MaxPos
MaxAnom == 3          \* anomalies in the line dataset
MaxAccess == 3        \* accesses of LineGroup.groups on one instance
MaxNear == 4          \* anomalies handed to a direct call of get_near_peaks
MaxAnomGroups == 2    \* anomalies of an instance whose groups property is read
MaxLines == 3         \* options of the line_id dropdown
MaxComputations == 2  \* calls of compute_line that ask the driver for lines
MaxRunning == 2       \* calls of compute_line in progress at a time
MaxActions == 2       \* actions of the user on the layout
MaxAssignments == 1   \* assignments of lines by the code that holds the application
MaxGroups == 3        \* base groups handed to group_n_groups directly

ChannelIndices == 0 .. 3      \* the channels of the property group
HalfWidths == {0, 1}          \* samples an anomaly spans on each side of its peak
MigrationValues == {0, 1, 2}  \* max_migration
MinChannelValues == {0, 1, 2} \* min_channels
SeparationValues == {0, 1}    \* max_separation, compute()
SeparationsMerge == {0, 2}    \* max_separation, group_n_groups() called directly
NGroupsCompute == {1, 2}      \* n_groups, compute()
NGroupsMerge == {1, 2, 3}     \* n_groups, group_n_groups() called directly
SamplingsMerge == {0, 1, 2}   \* sampling, group_n_groups() called directly
TieOrders == {"stable", "reverse"}

---------------------------------------------------------------------------
(* Helpers: numpy primitives. *)

Abs(x) == IF x < 0 THEN -x ELSE x

SetMin(S) == CHOOSE x \in S : \A y \in S : x <= y

SetMax(S) == CHOOSE x \in S : \A y \in S : x >= y

Range(s) == { s[k] : k \in 1 .. Len(s) }

(* The sequence s as a tuple of values, evaluated once. *)
Tuple(s) == s \o << >>

RECURSIVE SetToSortedSeq(_)
SetToSortedSeq(S) ==
    IF S = {} THEN << >>
    ELSE LET m == SetMin(S) IN << m >> \o SetToSortedSeq(S \ {m})

(* s[mask]: the elements of s at the indices of the set mask, in order. *)
SelectIdx(s, mask) ==
    LET ks == SetToSortedSeq(mask \cap (1 .. Len(s)))
    IN Tuple([ j \in 1 .. Len(ks) |-> s[ks[j]] ])

Reverse(s) == Tuple([ k \in 1 .. Len(s) |-> s[Len(s) + 1 - k] ])

RECURSIVE Flatten(_)
Flatten(ss) == IF ss = << >> THEN << >> ELSE Head(ss) \o Flatten(Tail(ss))

(* np.unique(a): the sorted distinct values of a. *)
Unique(s) == SetToSortedSeq(Range(s))

(* np.unique(a, return_counts=True)[1][k] for the value v. *)
CountOf(s, v) == Cardinality({ k \in 1 .. Len(s) : s[k] = v })

(* np.searchsorted(a, v, side): numpy's binary search, which is also what  *)
(* runs when a is not sorted.  The element x goes left of the insertion    *)
(* point when x < v for side="left" and when x <= v for side="right".      *)
(* Returns the 0-based insertion index.                                    *)
searchsorted(a, v, side) ==
    LET Less(x) == IF side = "left" THEN x < v ELSE x <= v
        search[lo \in 0 .. Len(a), hi \in 0 .. Len(a)] ==
            IF lo >= hi THEN lo
            ELSE LET mid == lo + ((hi - lo) \div 2) IN
                 IF Less(a[mid + 1]) THEN search[mid + 1, hi]
                 ELSE search[lo, mid]
    IN search[0, Len(a)]

(* Mutant of ArgMinFirst: index 0, whatever the values. *)
ArgFirst(values) == 1

(* np.argmin(values): the index of the first minimum. *)
ArgMinFirst(values) ==
    LET m == SetMin(Range(values))
    IN SetMin({ j \in 1 .. Len(values) : values[j] = m })

---------------------------------------------------------------------------
(* AnomalyGroup (peak_finder/anomaly_group.py). *)

AnomalyGroup(id, anomalies, subgroups) ==
    [ id |-> id, anomalies |-> anomalies, subs |-> subgroups ]

(* AnomalyGroup.subgroups: a base group stands for itself.  The set holds  *)
(* group objects; the model holds their identities.                        *)
Subgroups(g) == IF g.subs = {} THEN {g.id} ELSE g.subs

(* AnomalyGroup.start: the smallest start of its anomalies. *)
GroupStart(g) == SetMin({ g.anomalies[k].start : k \in 1 .. Len(g.anomalies) })

(* AnomalyGroup.end: the largest end of its anomalies. *)
GroupEnd(g) == SetMax({ g.anomalies[k].end : k \in 1 .. Len(g.anomalies) })

---------------------------------------------------------------------------
(* LineGroup.get_anomaly_attributes. *)

full_channels == Tuple([ k \in 1 .. Len(full_anomalies) |-> full_anomalies[k].ch ])

full_peak_positions ==
    Tuple([ k \in 1 .. Len(full_anomalies) |-> full_anomalies[k].peak * sampling ])

---------------------------------------------------------------------------
(* LineGroup.get_near_peaks. *)

GapLimit == 2

(* Mutant of Dist: the np.abs is left out. *)
DistSigned(i, peaks_position) ==
    Tuple([ k \in 1 .. Len(peaks_position) |->
              peaks_position[i] - peaks_position[k] ])

(* dist = np.abs(peaks_position[ind] - peaks_position) *)
Dist(i, peaks_position) ==
    Tuple([ k \in 1 .. Len(peaks_position) |->
              Abs(peaks_position[i] - peaks_position[k]) ])

(* Mutant of NearInRange: dist <= self.max_migration. *)
NearInRangeInclusive(i, peaks_position) ==
    LET dist == Dist(i, peaks_position)
    IN SetToSortedSeq({ k \in 1 .. Len(peaks_position) : dist[k] <= max_migration })

(* near = np.where(dist < self.max_migration)[0] *)
NearInRange(i, peaks_position) ==
    LET dist == Dist(i, peaks_position)
    IN SetToSortedSeq({ k \in 1 .. Len(peaks_position) : dist[k] < max_migration })

(* Mutant of GapCut: the near set is never cut. *)
GapCutNever(near, full_channel) == near

(* Lines 186-189: cut the near set at the first channel gap > 2. *)
GapCut(near, full_channel) ==
    LET u_gates == Unique([ k \in 1 .. Len(near) |-> full_channel[near[k]] ])
        gaps == { j \in 1 .. Len(u_gates) - 1 : u_gates[j + 1] - u_gates[j] > GapLimit }
    IN IF Len(u_gates) > 1 /\ gaps # {}
       THEN LET cutoff == u_gates[SetMin(gaps)]
            IN SelectSeq(near, LAMBDA n : full_channel[n] <= cutoff)
       ELSE near

(* Mutant of KeepNearest: the mask is never applied to near. *)
KeepNearestUnmasked(near, gate, full_channel, dist) == near

(* Lines 195-199: one iteration of the loop over the duplicated gates. *)
KeepNearest(near, gate, full_channel, dist) ==
    LET sub_ind == SetToSortedSeq({ k \in 1 .. Len(near) : full_channel[near[k]] = gate })
        keep == sub_ind[ArgMinFirst([ j \in 1 .. Len(sub_ind) |-> dist[near[sub_ind[j]]] ])]
        mask == { k \in 1 .. Len(near) : full_channel[near[k]] # gate \/ k = keep }
    IN SelectIdx(near, mask)

RECURSIVE DropDuplicates(_, _, _, _)
DropDuplicates(near, gates, full_channel, dist) ==
    IF gates = << >> THEN near
    ELSE DropDuplicates(KeepNearest(near, Head(gates), full_channel, dist),
                        Tail(gates), full_channel, dist)

(* Lines 193-194: the gates that occur more than once in near. *)
DuplicatedGates(near, full_channel) ==
    LET chans == [ k \in 1 .. Len(near) |-> full_channel[near[k]] ]
    IN SelectSeq(Unique(chans), LAMBDA g : CountOf(chans, g) > 1)

get_near_peaks(i, full_channel, peaks_position) ==
    LET near == GapCut(NearInRange(i, peaks_position), full_channel)
    IN DropDuplicates(near, DuplicatedGates(near, full_channel), full_channel,
                      Dist(i, peaks_position))

---------------------------------------------------------------------------
(* LineGroup.group_n_groups. *)

(* Mutant of ArgSort: np.unique(values, return_index=True)[1] in place of  *)
(* np.argsort(values), which keeps one index for each value.               *)
ArgSortUnique(values) ==
    LET distinct == Unique(values)
    IN [ j \in 1 .. Len(distinct) |->
           SetMin({ k \in 1 .. Len(values) : values[k] = distinct[j] }) ]

(* np.argsort(values), line 250: the indices in the order of the values.   *)
(* The default sort kind is not stable: the order of the indices of equal  *)
(* values depends on the numpy build, which `tie` stands for.              *)
ArgSort(values) ==
    LET distinct == Unique(values)
        Class(v) == SelectSeq([ k \in 1 .. Len(values) |-> k ],
                              LAMBDA k : values[k] = v)
    IN Flatten([ j \in 1 .. Len(distinct) |->
                   IF tie = "stable" THEN Class(distinct[j])
                   ELSE Reverse(Class(distinct[j])) ])

(* Lines 261-263: start_ind, 0-based. *)
StartInd(group, all_ends) ==
    LET start == GroupStart(group)
    IN searchsorted(Tuple([ k \in 1 .. Len(all_ends) |-> all_ends[k] * sampling ]),
                    start * sampling - max_separation, "left")

(* Lines 264-269: end_ind, 0-based. *)
EndInd(group, all_starts) ==
    LET end == GroupEnd(group)
    IN searchsorted(Tuple([ k \in 1 .. Len(all_starts) |-> all_starts[k] * sampling ]),
                    end * sampling + max_separation, "right") - 1

(* in_range = np.arange(start_ind, end_ind + 1), as 1-based indices. *)
InRange(group, all_starts, all_ends) ==
    LET lo == StartInd(group, all_ends)
        hi == EndInd(group, all_starts)
    IN Tuple([ k \in 1 .. (IF hi >= lo THEN hi - lo + 1 ELSE 0) |-> lo + k ])

(* Mutant of Mergeable: the test `n_groups <= self.n_groups` is left out. *)
MergeableAnySize(group, other) ==
    Subgroups(other) \cap Subgroups(group) = {}

(* Mutant of Mergeable: the test on the intersection is left out. *)
MergeableOverlapping(group, other) ==
    Cardinality(Subgroups(group)) + Cardinality(Subgroups(other)) <= n_groups

(* Mutant of Mergeable: n_groups < self.n_groups. *)
MergeableStrict(group, other) ==
    /\ Subgroups(other) \cap Subgroups(group) = {}
    /\ Cardinality(Subgroups(group)) + Cardinality(Subgroups(other)) < n_groups

(* Lines 274-277: whether groups[i] is merged with group. *)
Mergeable(group, other) ==
    /\ Subgroups(other) \cap Subgroups(group) = {}
    /\ Cardinality(Subgroups(group)) + Cardinality(Subgroups(other)) <= n_groups

(* Lines 278-292: the composite of group and groups[i]. *)
NewGroup(group, other) ==
    AnomalyGroup(0, group.anomalies \o other.anomalies,
                 Subgroups(group) \cup Subgroups(other))

(* Lines 273-293 for one group: the composites it yields in this pass. *)
MergedOf(group, sorted, all_starts, all_ends) ==
    LET in_range == InRange(group, all_starts, all_ends)
        hits == SelectSeq(in_range, LAMBDA i : Mergeable(group, sorted[i]))
    IN Tuple([ k \in 1 .. Len(hits) |-> NewGroup(group, sorted[hits[k]]) ])

(* Lines 248-294: one iteration of the merge loop. *)
MergePassOf(gs) ==
    LET starts == Tuple([ k \in 1 .. Len(gs) |-> GroupStart(gs[k]) ])
        sort_inds == ArgSort(starts)
        sorted == Tuple([ k \in 1 .. Len(sort_inds) |-> gs[sort_inds[k]] ])
        all_starts == Tuple([ k \in 1 .. Len(sort_inds) |-> starts[sort_inds[k]] ])
        all_ends == Tuple([ k \in 1 .. Len(sorted) |-> GroupEnd(sorted[k]) ])
    IN sorted \o Flatten([ k \in 1 .. Len(sorted) |->
                             MergedOf(sorted[k], sorted, all_starts, all_ends) ])

(* Lines 296-306: the groups of exactly n_groups subgroups, each subgroup  *)
(* set once.                                                               *)
RECURSIVE FilterFrom(_, _, _)
FilterFrom(gs, k, unique_groups) ==
    IF k > Len(gs) THEN << >>
    ELSE IF /\ Cardinality(Subgroups(gs[k])) = n_groups
            /\ Subgroups(gs[k]) \notin unique_groups
         THEN << gs[k] >> \o FilterFrom(gs, k + 1, unique_groups \cup {Subgroups(gs[k])})
         ELSE FilterFrom(gs, k + 1, unique_groups)

(* Mutant of ReturnGroups: the test on the number of subgroups is left out. *)
ReturnGroupsAnySize(gs) ==
    SelectIdx(gs, { k \in 1 .. Len(gs) :
                      \A j \in 1 .. k - 1 : Subgroups(gs[j]) # Subgroups(gs[k]) })

(* Mutant of ReturnGroups: the test on unique_groups is left out. *)
ReturnGroupsNoDedup(gs) ==
    SelectSeq(gs, LAMBDA g : Cardinality(Subgroups(g)) = n_groups)

ReturnGroups(gs) == FilterFrom(gs, 1, {})

---------------------------------------------------------------------------
(* The inputs. *)

Anomaly(c, p, w) ==
    [ ch |-> c, peak |-> p,
      start |-> IF p - w < 0 THEN 0 ELSE p - w,
      end |-> IF p + w > MaxPos THEN MaxPos ELSE p + w ]

AnomalyUniverse(w) ==
    { Anomaly(c, p, w) : c \in ChannelIndices, p \in 0 .. MaxPos }

(* Channel-major order; the anomalies of one channel follow the line and   *)
(* do not overlap (LineData.anomalies).                                    *)
Follows(a, b) ==
    \/ a.ch < b.ch
    \/ a.ch = b.ch /\ a.end < b.start

RECURSIVE Datasets(_, _)
Datasets(w, n) ==
    IF n = 0 THEN { << >> }
    ELSE LET shorter == Datasets(w, n - 1)
         IN shorter \cup
            { Append(s, a) : s \in { t \in shorter : Len(t) = n - 1 },
                             a \in AnomalyUniverse(w) }

WellFormed(s) == \A k \in 1 .. Len(s) - 1 : Follows(s[k], s[k + 1])

(* The datasets of at most n anomalies that are well formed, built in      *)
(* channel-major order.                                                    *)
RECURSIVE OrderedDatasets(_, _)
OrderedDatasets(w, n) ==
    IF n = 0 THEN { << >> }
    ELSE LET shorter == OrderedDatasets(w, n - 1)
         IN shorter \cup
            UNION { { Append(s, a) :
                          a \in { b \in AnomalyUniverse(w) :
                                     s = << >> \/ Follows(s[Len(s)], b) } } :
                    s \in { t \in shorter : Len(t) = n - 1 } }

(* The state of the PeakFinder application (application.py), which the     *)
(* LineGroup code does not touch.                                          *)
app == << _lines, objects, layout, line_ids, line_indices,
         update_from_property_groups, update_computation,
         triggers, ac_triggers, li_triggers, pending, running, started,
         cause, acted, calls >>

(* layout.py lines 26, 47, 68, 87-92 and 158-164: the dropdowns have no    *)
(* value and no option when the application starts, and n_lines is 1.      *)
LayoutStart ==
    [ line_field |-> << >>, line_id |-> << >>, options |-> << >>,
      n_lines |-> << 1 >>, group_name |-> << >> ]

(* No input of mask_data, update_line_id_options or get_line_ids has       *)
(* changed since their last call.                                          *)
NonePending ==
    [ mask_data |-> {}, update_line_id_options |-> {}, get_line_ids |-> {} ]

(* The last step was not the return of a call of compute_line. *)
NoReturn == [ get_line_ids |-> << >>, compute_line |-> << >> ]

(* application.py lines 51 and layout.py lines 492-501: the application    *)
(* when it starts.                                                         *)
AppStart ==
    /\ _lines = << >>
    /\ objects = << >>
    /\ layout = LayoutStart
    /\ line_ids = << >>
    /\ line_indices = << >>
    /\ update_from_property_groups = FALSE
    /\ update_computation = 0
    /\ triggers = {}
    /\ ac_triggers = {}
    /\ li_triggers = {}
    /\ pending = NonePending
    /\ running = << >>
    /\ started = 0
    /\ cause = "other"
    /\ acted = [ user |-> 0, holder |-> 0 ]
    /\ calls = NoReturn

---------------------------------------------------------------------------
(* compute(), lines 316-331: the state when the scan starts. *)
Init ==
    /\ \E w \in HalfWidths :
          full_anomalies \in { s \in Datasets(w, MaxAnom) : WellFormed(s) }
    /\ max_migration \in MigrationValues
    /\ min_channels \in MinChannelValues
    /\ n_groups \in NGroupsCompute
    /\ max_separation \in SeparationValues
    /\ sampling = 1
    /\ tie \in TieOrders
    /\ pc = "scan"
    /\ ind = 1
    /\ group_id = -1
    /\ full_group_ids = [ k \in 1 .. Len(full_anomalies) |-> -1 ]
    /\ groups = << >>
    /\ passes = 0
    /\ next_id = 1
    /\ merge_calls = 0
    /\ seeds = << >>
    /\ outputs = << >>
    /\ _groups = << >>
    /\ compute_calls = 1
    /\ _channels = << full_anomalies >>
    /\ results = << >>
    /\ near_peaks = << >>
    /\ AppStart

params == << full_anomalies, max_migration, min_channels, n_groups,
             max_separation, sampling, tie >>

(* The state of the `groups` and `channels` properties, which the steps   *)
(* of compute() do not touch.                                             *)
memo == << _groups, _channels, compute_calls, results, near_peaks >>

(* Lines 143-153: the property `channels` reads the line dataset on its   *)
(* first call and keeps what it has read in _channels, which every later  *)
(* call returns.                                                          *)
channels == IF _channels = << >> THEN << full_anomalies >> ELSE _channels

(* Mutant of Discarded: the test `len(near) == 0` is left out. *)
DiscardedNoEmptyTest(near, full_channel) ==
    Cardinality({ full_channel[near[k]] : k \in 1 .. Len(near) }) < min_channels

(* Lines 346-349: the test that discards the cluster of a seed. *)
Discarded(near, full_channel) ==
    \/ Cardinality({ full_channel[near[k]] : k \in 1 .. Len(near) }) < min_channels
    \/ Len(near) = 0

(* Mutant of Label: full_group_ids[ind] = group_id, the seed alone (the     *)
(* seed is the first entry of near when it is on the lowest channel).      *)
LabelFirst(ids, near, gid) ==
    Tuple([ k \in 1 .. Len(ids) |->
              IF Len(near) > 0 /\ k = near[1] THEN gid ELSE ids[k] ])

(* Line 352: full_group_ids[near] = group_id. *)
Label(ids, near, gid) ==
    Tuple([ k \in 1 .. Len(ids) |-> IF k \in Range(near) THEN gid ELSE ids[k] ])

(* Mutant of MergeRequested: n_groups >= 1. *)
MergeRequestedFromOne == n_groups >= 1

(* Line 369: whether compute() merges the base groups. *)
MergeRequested == n_groups > 1

(* Mutant of Labelled: the test of line 334 never holds. *)
LabelledNever(ids, i) == FALSE

(* Line 334: full_group_ids[ind] != -1. *)
Labelled(ids, i) == ids[i] # -1

(* Mutant of DiscardLabels: line 352 runs before the test of lines 346-349. *)
DiscardLabelsAnyway(ids, near, gid) == Label(ids, near, gid)

(* Lines 346-350: `continue` comes before line 352, so a discarded cluster *)
(* leaves full_group_ids as it is.                                         *)
DiscardLabels(ids, near, gid) == ids

(* Lines 333-335: the anomaly is already labelled. *)
ScanSkip ==
    /\ pc = "scan"
    /\ ind <= Len(full_anomalies)
    /\ Labelled(full_group_ids, ind)
    /\ ind' = ind + 1
    /\ UNCHANGED << params, memo, app, pc, group_id, full_group_ids, groups, passes,
                    next_id, merge_calls, seeds, outputs >>

(* Lines 337-350: the cluster of the seed is discarded. *)
ScanDiscard ==
    /\ pc = "scan"
    /\ ind <= Len(full_anomalies)
    /\ ~ Labelled(full_group_ids, ind)
    /\ LET near == get_near_peaks(ind, full_channels, full_peak_positions)
       IN /\ Discarded(near, full_channels)
          /\ full_group_ids' = DiscardLabels(full_group_ids, near, group_id + 1)
    /\ group_id' = group_id + 1
    /\ ind' = ind + 1
    /\ UNCHANGED << params, memo, app, pc, groups, passes, next_id,
                    merge_calls, seeds, outputs >>

(* Lines 337-367: the cluster of the seed becomes a base group. *)
ScanEmit ==
    /\ pc = "scan"
    /\ ind <= Len(full_anomalies)
    /\ ~ Labelled(full_group_ids, ind)
    /\ LET near == get_near_peaks(ind, full_channels, full_peak_positions)
       IN /\ ~ Discarded(near, full_channels)
          /\ full_group_ids' = Label(full_group_ids, near, group_id + 1)
          /\ groups' = Append(groups,
                 AnomalyGroup(next_id,
                              [ k \in 1 .. Len(near) |-> full_anomalies[near[k]] ],
                              {}))
    /\ group_id' = group_id + 1
    /\ next_id' = next_id + 1
    /\ seeds' = Append(seeds, ind)
    /\ ind' = ind + 1
    /\ UNCHANGED << params, memo, app, pc, passes, merge_calls, outputs >>

(* Lines 369-372 without a merge: compute() returns the base groups. *)
ReturnBase ==
    /\ pc = "scan"
    /\ ind > Len(full_anomalies)
    /\ ~ MergeRequested
    /\ pc' = "done"
    /\ UNCHANGED << params, memo, app, ind, group_id, full_group_ids, groups, passes,
                    next_id, merge_calls, seeds, outputs >>

(* Lines 369-370: compute() calls group_n_groups(groups). *)
CallGroupNGroups ==
    /\ pc = "scan"
    /\ ind > Len(full_anomalies)
    /\ MergeRequested
    /\ pc' = "enter"
    /\ merge_calls' = merge_calls + 1
    /\ UNCHANGED << params, memo, app, ind, group_id, full_group_ids, groups, passes,
                    next_id, seeds, outputs >>

(* Lines 244-245: no sampling, the groups are returned as they are. *)
MergeNoSampling ==
    /\ pc = "enter"
    /\ sampling = 0
    /\ pc' = "returned"
    /\ outputs' = Append(outputs, groups)
    /\ UNCHANGED << params, memo, app, ind, group_id, full_group_ids, groups, passes,
                    next_id, merge_calls, seeds >>

(* Lines 244 and 247: there is a sampling, the test reads the channels    *)
(* and the merge loop starts.                                             *)
MergeEnter ==
    /\ pc = "enter"
    /\ sampling # 0
    /\ _channels' = channels
    /\ pc' = "pass"
    /\ passes' = 0
    /\ UNCHANGED << params, _groups, compute_calls, results, near_peaks, app,
                    ind, group_id, full_group_ids, groups, next_id,
                    merge_calls, seeds, outputs >>

(* Lines 247-294: one iteration of `for _ in range(self.n_groups)`. *)
MergePass ==
    /\ pc = "pass"
    /\ passes < n_groups
    /\ groups' = MergePassOf(groups)
    /\ passes' = passes + 1
    /\ UNCHANGED << params, memo, app, pc, ind, group_id, full_group_ids, next_id,
                    merge_calls, seeds, outputs >>

(* Lines 296-306: the filter, and the return.  `groups` stays the working  *)
(* list of group_n_groups; the returned list is appended to `outputs`.     *)
MergeReturn ==
    /\ pc = "pass"
    /\ ~ (passes < n_groups)
    /\ outputs' = Append(outputs, ReturnGroups(groups))
    /\ pc' = "returned"
    /\ UNCHANGED << params, memo, app, ind, group_id, full_group_ids, groups, passes,
                    next_id, merge_calls, seeds >>

(* Lines 370-372: compute() binds `groups` to the merged list, returns it. *)
ComputeReturn ==
    /\ pc = "returned"
    /\ groups' = outputs[Len(outputs)]
    /\ pc' = "done"
    /\ UNCHANGED << params, memo, app, ind, group_id, full_group_ids, passes, next_id,
                    merge_calls, seeds, outputs >>

Next ==
    \/ ScanSkip
    \/ ScanDiscard
    \/ ScanEmit
    \/ ReturnBase
    \/ CallGroupNGroups
    \/ MergeEnter
    \/ MergePass
    \/ MergeReturn
    \/ ComputeReturn

Spec == Init /\ [][Next]_vars

---------------------------------------------------------------------------
(* group_n_groups() called on a list of base groups, and called again on   *)
(* the list it returned.                                                   *)

(* A base group of one anomaly on channel c, spanning [s, e]. *)
BaseGroup(c, s, e) ==
    AnomalyGroup(c + 1, << [ ch |-> c, peak |-> s, start |-> s, end |-> e ] >>, {})

Intervals == { << s, e >> : s \in 0 .. MaxPos, e \in 0 .. MaxPos }

RECURSIVE BaseLists(_)
BaseLists(n) ==
    IF n = 0 THEN { << >> }
    ELSE LET shorter == BaseLists(n - 1)
         IN shorter \cup
            { Append(s, BaseGroup(n - 1, iv[1], iv[2])) :
                s \in { t \in shorter : Len(t) = n - 1 },
                iv \in { x \in Intervals : x[1] <= x[2] } }

(* The list is drawn sorted by start: group_n_groups sorts it (line 251)   *)
(* before anything reads it, so the order of its input shows only in the   *)
(* order of equal starts, which `tie` and the free choice of the ends      *)
(* cover.                                                                  *)
SortedByStart(s) ==
    \A k \in 1 .. Len(s) - 1 : GroupStart(s[k]) <= GroupStart(s[k + 1])

InitMerge ==
    /\ groups \in { s \in BaseLists(MaxGroups) : SortedByStart(s) }
    /\ n_groups \in NGroupsMerge
    /\ max_separation \in SeparationsMerge
    /\ sampling \in SamplingsMerge
    /\ tie \in TieOrders
    /\ pc = "enter"
    /\ merge_calls = 1
    /\ full_anomalies = << >>
    /\ max_migration = 0
    /\ min_channels = 0
    /\ ind = 1
    /\ group_id = -1
    /\ full_group_ids = << >>
    /\ passes = 0
    /\ next_id = Len(groups) + 1
    /\ seeds = << >>
    /\ outputs = << >>
    /\ _groups = << >>
    /\ compute_calls = 0
    /\ _channels = << >>
    /\ results = << >>
    /\ near_peaks = << >>
    /\ AppStart

(* The caller hands the list the first call returned to group_n_groups()  *)
(* again.                                                                  *)
Remerge ==
    /\ pc = "returned"
    /\ Len(outputs) = 1
    /\ groups' = outputs[Len(outputs)]
    /\ merge_calls' = merge_calls + 1
    /\ pc' = "enter"
    /\ UNCHANGED << params, memo, app, ind, group_id, full_group_ids, passes, next_id,
                    seeds, outputs >>

NextMerge ==
    \/ MergeNoSampling
    \/ MergeEnter
    \/ MergePass
    \/ MergeReturn
    \/ Remerge

SpecMerge == InitMerge /\ [][NextMerge]_vars

---------------------------------------------------------------------------
(* The `groups` property (lines 56-63) of one LineGroup instance, read     *)
(* several times.  The constructor (lines 29-54) stores the parameters as  *)
(* they are given, so the instance may hold any of them.                   *)

NGroupsAny == {0, 1, 2}

(* The samplings a position can have when the property is read. *)
SamplingsGroups == {1, 2}

(* Lines 45-54: the instance after construction. *)
InitGroups ==
    /\ full_anomalies \in OrderedDatasets(0, MaxAnomGroups)
    /\ max_migration \in MigrationValues
    /\ min_channels \in MinChannelValues
    /\ n_groups \in NGroupsAny
    /\ max_separation \in SeparationValues
    /\ sampling = 1
    /\ tie \in TieOrders
    /\ pc = "idle"
    /\ ind = 1
    /\ group_id = -1
    /\ full_group_ids = [ k \in 1 .. Len(full_anomalies) |-> -1 ]
    /\ groups = << >>
    /\ passes = 0
    /\ next_id = 1
    /\ merge_calls = 0
    /\ seeds = << >>
    /\ outputs = << >>
    /\ _groups = << >>
    /\ compute_calls = 0
    /\ _channels = << >>
    /\ results = << >>
    /\ near_peaks = << >>
    /\ AppStart

(* Mutant of Stored: the result of compute() is not kept. *)
StoredNowhere(value) == << >>

(* Line 62: self._groups = <the list compute() returned>. *)
Stored(value) == << value >>

(* Lines 61-62: _groups is None, the property calls compute(), whose       *)
(* locals start as in lines 316-331.                                       *)
GroupsCompute ==
    /\ pc = "idle"
    /\ Len(results) < MaxAccess
    /\ _groups = << >>
    /\ compute_calls' = compute_calls + 1
    /\ _channels' = channels
    /\ pc' = "scan"
    /\ ind' = 1
    /\ group_id' = -1
    /\ full_group_ids' = [ k \in 1 .. Len(full_anomalies) |-> -1 ]
    /\ groups' = << >>
    /\ seeds' = << >>
    /\ outputs' = << >>
    /\ UNCHANGED << params, app, passes, next_id, merge_calls, _groups,
                    results, near_peaks >>

(* Lines 62-63: compute() has returned; the list is stored and returned.  *)
(* The locals of compute() and of group_n_groups() are gone.               *)
GroupsStore ==
    /\ pc = "done"
    /\ _groups' = Stored(groups)
    /\ results' = Append(results, groups)
    /\ pc' = "idle"
    /\ ind' = 1
    /\ group_id' = -1
    /\ full_group_ids' = [ k \in 1 .. Len(full_anomalies) |-> -1 ]
    /\ groups' = << >>
    /\ passes' = 0
    /\ next_id' = 1
    /\ merge_calls' = 0
    /\ seeds' = << >>
    /\ outputs' = << >>
    /\ UNCHANGED << params, app, _channels, compute_calls, near_peaks >>

(* Lines 61 and 63: _groups is not None and is returned. *)
GroupsCached ==
    /\ pc = "idle"
    /\ Len(results) < MaxAccess
    /\ _groups # << >>
    /\ results' = Append(results, _groups[1])
    /\ UNCHANGED << params, app, pc, ind, group_id, full_group_ids, groups,
                    passes, next_id, merge_calls, seeds, outputs, _groups,
                    _channels, compute_calls, near_peaks >>

(* Lines 89-123: the setters of max_migration, min_channels, n_groups and *)
(* max_separation, called between two accesses of the property.  None of  *)
(* them touches _groups.                                                   *)
SetParameter ==
    /\ pc = "idle"
    /\ \/ /\ max_migration' \in MigrationValues \ { max_migration }
          /\ UNCHANGED << min_channels, n_groups, max_separation >>
       \/ /\ min_channels' \in MinChannelValues \ { min_channels }
          /\ UNCHANGED << max_migration, n_groups, max_separation >>
       \/ /\ n_groups' \in NGroupsAny \ { n_groups }
          /\ UNCHANGED << max_migration, min_channels, max_separation >>
       \/ /\ max_separation' \in SeparationValues \ { max_separation }
          /\ UNCHANGED << max_migration, min_channels, n_groups >>
    /\ UNCHANGED << full_anomalies, sampling, tie, memo, app, pc, ind, group_id,
                    full_group_ids, groups, passes, next_id, merge_calls,
                    seeds, outputs >>

(* Lines 65-74: the setter of position, which holds the sampling. *)
SetPosition ==
    /\ pc = "idle"
    /\ sampling' \in SamplingsGroups \ { sampling }
    /\ UNCHANGED << full_anomalies, max_migration, min_channels, n_groups,
                    max_separation, tie, memo, app, pc, ind, group_id,
                    full_group_ids, groups, passes, next_id, merge_calls,
                    seeds, outputs >>

(* Lines 76-98 and 125-136: the setters of line_dataset and                *)
(* property_group.  The channels are read from them on the first read of   *)
(* the property `channels` and kept in _channels, so a later call of the   *)
(* setters leaves the anomalies of the instance as they are.  The new      *)
(* dataset holds one anomaly at most.                                      *)
SetLineDataset ==
    /\ pc = "idle"
    /\ _channels = << >>
    /\ full_anomalies' \in OrderedDatasets(0, 1) \ { full_anomalies }
    /\ full_group_ids' = [ k \in 1 .. Len(full_anomalies') |-> -1 ]
    /\ UNCHANGED << max_migration, min_channels, n_groups, max_separation,
                    sampling, tie, memo, app, pc, ind, group_id, groups,
                    passes, next_id, merge_calls, seeds, outputs >>

(* Lines 143-153: the property `channels` is read before compute() was    *)
(* called.                                                                 *)
ReadChannels ==
    /\ pc = "idle"
    /\ _channels = << >>
    /\ _channels' = channels
    /\ UNCHANGED << params, _groups, compute_calls, results, near_peaks, app,
                    pc, ind, group_id, full_group_ids, groups, passes,
                    next_id, merge_calls, seeds, outputs >>

NextGroups ==
    \/ SetParameter
    \/ SetPosition
    \/ SetLineDataset
    \/ ReadChannels
    \/ GroupsCompute
    \/ ScanSkip
    \/ ScanDiscard
    \/ ScanEmit
    \/ ReturnBase
    \/ CallGroupNGroups
    \/ MergeEnter
    \/ MergePass
    \/ MergeReturn
    \/ ComputeReturn
    \/ GroupsStore
    \/ GroupsCached

SpecGroups == InitGroups /\ [][NextGroups]_vars

---------------------------------------------------------------------------
(* Properties. *)

Channels(g) == { g.anomalies[k].ch : k \in 1 .. Len(g.anomalies) }

IsBase(g) == g.subs = {}

(* The cluster of the anomaly at index i, as compute() obtains it. *)
ClusterOf(i) == get_near_peaks(i, full_channels, full_peak_positions)

ClusterAnomalies(i) ==
    LET near == ClusterOf(i) IN [ k \in 1 .. Len(near) |-> full_anomalies[near[k]] ]

(* The anomalies of the base group of identity id: compute() gives the     *)
(* k-th emitted base group the identity k, and its seed is seeds[k].       *)
BaseAnomalies(id) == Range(ClusterAnomalies(seeds[id]))

(* C1: in every base AnomalyGroup emitted by compute(), no two anomalies   *)
(* come from the same channel index.                                       *)
C1_ChannelExclusive ==
    \A k \in 1 .. Len(groups) :
        IsBase(groups[k]) =>
            \A i, j \in 1 .. Len(groups[k].anomalies) :
                i # j => groups[k].anomalies[i].ch # groups[k].anomalies[j].ch

(* A base group of two channels or more was emitted for a seed whose       *)
(* migration range held two anomalies of one channel.                      *)
C1_Witness ==
    /\ pc = "scan"
    /\ \E k \in 1 .. Len(seeds) :
          LET raw == NearInRange(seeds[k], full_peak_positions)
          IN /\ \E i, j \in 1 .. Len(raw) :
                    i # j /\ full_channels[raw[i]] = full_channels[raw[j]]
             /\ Len(groups[k].anomalies) >= 2

(* C4: in the merged output of compute(), no two subgroups of a composite  *)
(* share an anomaly.                                                       *)
C4_SubgroupsShareNoAnomaly ==
    (pc = "done" /\ n_groups > 1) =>
        \A k \in 1 .. Len(groups) :
            \A a, b \in Subgroups(groups[k]) :
                a # b => BaseAnomalies(a) \cap BaseAnomalies(b) = {}

(* C5: every base group emitted by compute() holds anomalies of at least   *)
(* min_channels distinct channels and is not empty; a seed whose cluster   *)
(* has fewer channels, or is empty, emits no group.                        *)
C5_MinChannels ==
    pc = "scan" =>
        /\ Len(seeds) = Len(groups)
        /\ \A k \in 1 .. Len(groups) :
              /\ Cardinality(Channels(groups[k])) >= min_channels
              /\ Len(groups[k].anomalies) > 0
        /\ \A i \in 1 .. ind - 1 :
              LET near == ClusterOf(i)
              IN (\/ Len(near) = 0
                  \/ Cardinality({ full_channels[near[k]] : k \in 1 .. Len(near) })
                        < min_channels)
                 => i \notin Range(seeds)

(* A group was emitted and, with min_channels = 2, a seed was discarded.   *)
C5_Witness ==
    /\ pc = "scan"
    /\ min_channels = 2
    /\ Len(groups) >= 1
    /\ group_id + 1 > Len(groups)

(* C6: with n_groups = 1, compute() returns the base groups of the scan,   *)
(* in scan order, and group_n_groups is not called.                        *)
C6_NoMergeForOneGroup ==
    (pc = "done" /\ n_groups = 1) =>
        /\ merge_calls = 0
        /\ outputs = << >>
        /\ Len(groups) = Len(seeds)
        /\ \A k \in 1 .. Len(seeds) - 1 : seeds[k] < seeds[k + 1]
        /\ \A k \in 1 .. Len(groups) :
              groups[k] = AnomalyGroup(k, ClusterAnomalies(seeds[k]), {})

(* compute() returned, for n_groups = 1, two base groups or more whose     *)
(* scan order is not the order of their starts.                            *)
C6_Witness ==
    /\ pc = "done"
    /\ n_groups = 1
    /\ Len(groups) >= 2
    /\ GroupStart(groups[1]) > GroupStart(groups[2])

(* The input of scenario C: two anomalies on two channels, the peaks       *)
(* closer than max_migration, min_channels = 2, n_groups = 1.              *)
C9_Scenario ==
    /\ Len(full_anomalies) = 2
    /\ full_anomalies[1].ch # full_anomalies[2].ch
    /\ Abs(full_peak_positions[1] - full_peak_positions[2]) < max_migration
    /\ min_channels = 2
    /\ n_groups = 1

(* C9 as stated: on the input of scenario C, compute() returns exactly one *)
(* group, which holds both anomalies.                                      *)
C9_OneGroupOfTwo ==
    (pc = "done" /\ C9_Scenario) =>
        /\ Len(groups) = 1
        /\ Range(groups[1].anomalies) = Range(full_anomalies)

(* C9 as amended: on the input of scenario C with the two channel indices  *)
(* at most 2 apart, compute() returns exactly one group, which holds both  *)
(* anomalies; the first anomaly is its seed and the second is labelled by  *)
(* it.                                                                     *)
C9_OneGroupOfTwoNoGap ==
    (/\ pc = "done"
     /\ C9_Scenario
     /\ Abs(full_anomalies[1].ch - full_anomalies[2].ch) <= GapLimit) =>
        /\ Len(groups) = 1
        /\ groups[1].anomalies = full_anomalies
        /\ seeds = << 1 >>
        /\ full_group_ids = << 0, 0 >>

(* compute() returned on the input of scenario C, the channels 2 apart.    *)
C9_Witness ==
    /\ pc = "done"
    /\ C9_Scenario
    /\ Abs(full_anomalies[1].ch - full_anomalies[2].ch) = GapLimit
    /\ Len(groups) = 1

(* The input of scenario D: two anomalies on two channels, the peaks       *)
(* farther apart than max_migration, min_channels = 2.                     *)
C10_Scenario ==
    /\ Len(full_anomalies) = 2
    /\ full_anomalies[1].ch # full_anomalies[2].ch
    /\ Abs(full_peak_positions[1] - full_peak_positions[2]) > max_migration
    /\ min_channels = 2

(* C10: on the input of scenario D, compute() returns no group: both       *)
(* anomalies are tried as seeds and both clusters are discarded.           *)
C10_NoGroupWhenFar ==
    (pc = "done" /\ C10_Scenario) =>
        /\ groups = << >>
        /\ seeds = << >>
        /\ group_id = 1
        /\ full_group_ids = << -1, -1 >>

(* compute() returned on the input of scenario D, each anomaly within its  *)
(* own migration range.                                                    *)
C10_Witness ==
    /\ pc = "done"
    /\ C10_Scenario
    /\ max_migration >= 1
    /\ groups = << >>

---------------------------------------------------------------------------
(* Properties of group_n_groups(). *)

(* The subgroup sets of a list of groups. *)
Combos(gs) == { Subgroups(gs[k]) : k \in 1 .. Len(gs) }

(* h is within max_separation of g. *)
Near(g, h) ==
    /\ GroupEnd(h) * sampling >= GroupStart(g) * sampling - max_separation
    /\ GroupStart(h) * sampling <= GroupEnd(g) * sampling + max_separation

(* C2: for n_groups > 1 and a defined sampling, every group of a list      *)
(* returned by group_n_groups has exactly n_groups subgroups.              *)
C2_ExactlyNGroups ==
    (n_groups > 1 /\ sampling # 0) =>
        \A c \in 1 .. Len(outputs) :
            \A k \in 1 .. Len(outputs[c]) :
                Cardinality(Subgroups(outputs[c][k])) = n_groups

(* A first call with n_groups = 3 returned a group while its working list  *)
(* held base groups and composites of two.                                 *)
C2_Witness ==
    /\ pc = "returned"
    /\ Len(outputs) = 1
    /\ n_groups = 3
    /\ sampling # 0
    /\ Len(outputs[1]) >= 1
    /\ \E k \in 1 .. Len(groups) : Cardinality(Subgroups(groups[k])) = 2
    /\ \E k \in 1 .. Len(groups) : IsBase(groups[k])

(* C3: a list returned by group_n_groups never holds two groups of equal   *)
(* subgroup sets.                                                          *)
C3_EachSetOnce ==
    \A c \in 1 .. Len(outputs) :
        \A i, j \in 1 .. Len(outputs[c]) :
            i # j => Subgroups(outputs[c][i]) # Subgroups(outputs[c][j])

(* A call returned while its working list held the (g, h) and the (h, g)   *)
(* composite of two base groups.                                           *)
C3_Witness ==
    /\ pc = "returned"
    /\ Len(outputs) = 1
    /\ sampling # 0
    /\ n_groups = 2
    /\ Len(outputs[1]) >= 1
    /\ \E i, j \in 1 .. Len(groups) :
          /\ i # j
          /\ Cardinality(Subgroups(groups[i])) = n_groups
          /\ Subgroups(groups[i]) = Subgroups(groups[j])
          /\ groups[i].anomalies # groups[j].anomalies

(* C7: group_n_groups applied to a list it returned, merged, deduplicated  *)
(* and of n_groups subgroups each, returns the same subgroup sets, each    *)
(* once.                                                                   *)
C7_MergeTwiceSame ==
    (/\ Len(outputs) = 2
     /\ \A k \in 1 .. Len(outputs[1]) :
            Cardinality(Subgroups(outputs[1][k])) = n_groups
     /\ Cardinality(Combos(outputs[1])) = Len(outputs[1])) =>
        /\ Combos(outputs[2]) = Combos(outputs[1])
        /\ Len(outputs[2]) = Len(outputs[1])

(* The second call returned, on a list of two composites or more. *)
C7_Witness ==
    /\ Len(outputs) = 2
    /\ sampling # 0
    /\ n_groups >= 2
    /\ Len(outputs[1]) >= 2
    /\ Len(outputs[2]) >= 2

(* The base groups of the working list, and the orders of three of them    *)
(* by start.                                                               *)
BaseGroupsOf(gs) == SelectSeq(gs, IsBase)

ChainOfThree(b) ==
    \E p \in { q \in [1 .. 3 -> 1 .. 3] : \A x, y \in 1 .. 3 : x # y => q[x] # q[y] } :
        /\ GroupStart(b[p[1]]) <= GroupStart(b[p[2]])
        /\ GroupStart(b[p[2]]) <= GroupStart(b[p[3]])
        /\ Near(b[p[1]], b[p[2]])
        /\ Near(b[p[2]], b[p[3]])

(* The input of scenario E, at the return of the call: n_groups = 3, a     *)
(* defined sampling, three base groups of which each consecutive pair, in  *)
(* the order of the starts, is within max_separation.                      *)
C8_Scenario ==
    /\ pc = "returned"
    /\ Len(outputs) = 1
    /\ n_groups = 3
    /\ sampling # 0
    /\ Len(BaseGroupsOf(groups)) = 3
    /\ ChainOfThree(BaseGroupsOf(groups))

(* C8: on the input of scenario E, group_n_groups returns exactly one      *)
(* group, the composite of the three base groups, and no group of two.     *)
C8_OneCompositeOfThree ==
    C8_Scenario =>
        /\ Len(outputs[1]) = 1
        /\ Subgroups(outputs[1][1]) =
              { BaseGroupsOf(groups)[k].id : k \in 1 .. 3 }
        /\ \A k \in 1 .. Len(outputs[1]) :
              Cardinality(Subgroups(outputs[1][k])) # 2

(* The call returned on the input of scenario E, the first and the last    *)
(* base group farther apart than max_separation.                           *)
C8_Witness ==
    /\ C8_Scenario
    /\ \E i, j \in 1 .. 3 :
          ~ Near(BaseGroupsOf(groups)[i], BaseGroupsOf(groups)[j])
    /\ Len(outputs[1]) = 1


---------------------------------------------------------------------------
(* Properties of the `groups` property, under SpecGroups. *)

(* C11: LineGroup.groups runs compute() at most once per instance: the     *)
(* first access stores the list compute() returned, and every later access *)
(* returns that stored list without another call of compute().             *)
C11_ComputeOnce ==
    /\ compute_calls <= 1
    /\ \A k \in 1 .. Len(results) : results[k] = results[1]
    /\ (results # << >> /\ pc = "idle") => _groups = << results[1] >>

(* A second access found the stored list, here the empty one, after one    *)
(* call of compute().                                                      *)
C11_Witness ==
    /\ Len(results) >= 2
    /\ compute_calls = 1
    /\ results[2] = << >>
    /\ full_anomalies # << >>

(* C12: a LineGroup computation whose parameters violate a precondition    *)
(* (n_groups < 1, or max_migration <= 0) hands no list of groups to the    *)
(* caller.                                                                 *)
C12_FailsFast ==
    (n_groups < 1 \/ max_migration <= 0) => pc # "done"

---------------------------------------------------------------------------
(* Properties of the merge passes, under SpecMerge. *)

(* Lines 249-251: the working list as a pass sorts it. *)
SortedGroups(gs) ==
    LET sort_inds == ArgSort(Tuple([ k \in 1 .. Len(gs) |-> GroupStart(gs[k]) ]))
    IN Tuple([ k \in 1 .. Len(sort_inds) |-> gs[sort_inds[k]] ])

(* Lines 253-254: all_starts and all_ends of the sorted list. *)
AllStarts(sorted) == Tuple([ k \in 1 .. Len(sorted) |-> GroupStart(sorted[k]) ])

AllEnds(sorted) == Tuple([ k \in 1 .. Len(sorted) |-> GroupEnd(sorted[k]) ])

(* The 1-based indices of the sorted list that the pass examines for the   *)
(* group at index k (line 273).                                            *)
Examined(sorted, k) ==
    Range(InRange(sorted[k], AllStarts(sorted), AllEnds(sorted)))

(* A pass is about to run on the working list. *)
PassPending == pc = "pass" /\ passes < n_groups

(* C13: when sampling is undefined and n_groups > 1, group_n_groups        *)
(* returns an empty output, not groups.                                    *)
C13_NoResultWithoutSampling ==
    (pc = "returned" /\ sampling = 0 /\ n_groups > 1) =>
        outputs[Len(outputs)] = << >>

(* C14: in every merge pass, for every group g, every group h of the       *)
(* working list with h.end >= g.start - delta and h.start <= g.end + delta *)
(* is examined as a partner of g.                                          *)
C14_NoPartnerMissed ==
    PassPending =>
        LET sorted == SortedGroups(groups)
        IN \A k, i \in 1 .. Len(sorted) :
              Near(sorted[k], sorted[i]) => i \in Examined(sorted, k)

(* C15: in every merge pass, every group h that is merged with g lies      *)
(* within the separation budget of g.                                      *)
C15_MergedWithinBudget ==
    PassPending =>
        LET sorted == SortedGroups(groups)
        IN \A k \in 1 .. Len(sorted) :
              \A i \in Examined(sorted, k) :
                 Mergeable(sorted[k], sorted[i]) => Near(sorted[k], sorted[i])

---------------------------------------------------------------------------
(* Properties of the clustering scan, under Spec.  While pc = "scan" the   *)
(* list `groups` holds the base groups emitted so far, groups[k] being the *)
(* one emitted for the seed seeds[k].                                      *)

(* The distinct channels, sorted, of the anomalies within max_migration of *)
(* the seed i, before any cut.                                             *)
RawChannels(i) ==
    LET raw == NearInRange(i, full_peak_positions)
    IN Unique([ k \in 1 .. Len(raw) |-> full_channels[raw[k]] ])

HasGap(u_gates) ==
    \E j \in 1 .. Len(u_gates) - 1 : u_gates[j + 1] - u_gates[j] > GapLimit

(* C16: no anomaly is a member of more than one base group emitted by one  *)
(* compute() call.                                                         *)
C16_OneGroupPerAnomaly ==
    pc = "scan" =>
        \A j, k \in 1 .. Len(groups) :
            j # k => Range(groups[j].anomalies) \cap Range(groups[k].anomalies) = {}

(* C17: every base group emitted by compute() contains the seed anomaly    *)
(* that produced it.                                                       *)
C17_SeedInItsGroup ==
    pc = "scan" =>
        \A k \in 1 .. Len(groups) :
            full_anomalies[seeds[k]] \in Range(groups[k].anomalies)

(* C19: in every base group emitted by compute(), consecutive values of    *)
(* the sorted distinct channel indices differ by at most 2, and the        *)
(* channels kept are those of the near set up to the channel below its     *)
(* first gap > 2.                                                          *)
C19_NoChannelGap ==
    pc = "scan" =>
        \A k \in 1 .. Len(groups) :
            LET kept == SetToSortedSeq(Channels(groups[k]))
                raw == RawChannels(seeds[k])
            IN /\ ~ HasGap(kept)
               /\ Range(kept) =
                     { c \in Range(raw) :
                         \A j \in 1 .. Len(raw) - 1 :
                             raw[j + 1] <= c => raw[j + 1] - raw[j] <= GapLimit }

(* A base group was emitted for a seed whose near set had a channel gap    *)
(* above 2.                                                                *)
C19_Witness ==
    /\ pc = "scan"
    /\ \E k \in 1 .. Len(groups) : HasGap(RawChannels(seeds[k]))

(* C20: every anomaly of a base group has a peak position whose distance   *)
(* to the peak position of the seed is strictly less than max_migration.   *)
C20_StrictlyWithinMigration ==
    pc = "scan" =>
        \A k \in 1 .. Len(groups) :
            \A j \in 1 .. Len(groups[k].anomalies) :
                Abs(groups[k].anomalies[j].peak * sampling
                    - full_peak_positions[seeds[k]]) < max_migration

(* A base group of two anomalies was emitted while a third anomaly, of a   *)
(* channel the group does not hold, lay at exactly max_migration from the  *)
(* seed.                                                                   *)
C20_Witness ==
    /\ pc = "scan"
    /\ \E k \in 1 .. Len(groups) :
          /\ Len(groups[k].anomalies) >= 2
          /\ \E i \in 1 .. Len(full_anomalies) :
                /\ Abs(full_peak_positions[i] - full_peak_positions[seeds[k]])
                      = max_migration
                /\ full_channels[i] \notin Channels(groups[k])
                /\ Abs(full_channels[i] - full_channels[seeds[k]]) <= 1

---------------------------------------------------------------------------
(* C18: group_n_groups performs exactly n_groups - 1 merge passes over the *)
(* working list (checked under SpecMerge, at the return of a call that     *)
(* entered the loop).                                                      *)
C18_PassCount ==
    (pc = "returned" /\ sampling # 0) => passes = n_groups - 1

---------------------------------------------------------------------------
(* get_near_peaks() called on its own, for any anomaly index of any        *)
(* dataset of up to MaxNear anomalies.                                     *)

MigrationsNear == {0, 1, 2, 3}

InitNear ==
    /\ full_anomalies \in OrderedDatasets(0, MaxNear) \ { << >> }
    /\ ind \in 1 .. Len(full_anomalies)
    /\ max_migration \in MigrationsNear
    /\ min_channels = 0
    /\ n_groups = 1
    /\ max_separation = 0
    /\ sampling = 1
    /\ tie = "stable"
    /\ pc = "call"
    /\ group_id = -1
    /\ full_group_ids = [ k \in 1 .. Len(full_anomalies) |-> -1 ]
    /\ groups = << >>
    /\ passes = 0
    /\ next_id = 1
    /\ merge_calls = 0
    /\ seeds = << >>
    /\ outputs = << >>
    /\ _groups = << >>
    /\ compute_calls = 0
    /\ _channels = << >>
    /\ results = << >>
    /\ near_peaks = << >>
    /\ AppStart

(* Lines 166-201: the call and its return value. *)
GetNearPeaks ==
    /\ pc = "call"
    /\ near_peaks' = get_near_peaks(ind, full_channels, full_peak_positions)
    /\ pc' = "got"
    /\ UNCHANGED << params, app, ind, group_id, full_group_ids, groups, passes,
                    next_id, merge_calls, seeds, outputs, _groups,
                    _channels, compute_calls, results >>

NextNear == GetNearPeaks

SpecNear == InitNear /\ [][NextNear]_vars

(* The near set after the gap truncation, before the duplicates are        *)
(* resolved (lines 181-189).                                               *)
TruncatedNear(i) == GapCut(NearInRange(i, full_peak_positions), full_channels)

(* The indices of s whose anomaly is on channel c. *)
OnChannel(s, c) == { s[k] : k \in { j \in 1 .. Len(s) : full_channels[s[j]] = c } }

DuplicatedChannels(s) ==
    { c \in ChannelIndices : Cardinality(OnChannel(s, c)) > 1 }

(* C21: of the anomalies of one channel in the near set, get_near_peaks    *)
(* keeps exactly the one whose peak position is closest to the peak of the *)
(* seed, for every channel of the near set.                                *)
C21_NearestOfEachChannel ==
    pc = "got" =>
        LET dist == Dist(ind, full_peak_positions)
            cut == TruncatedNear(ind)
        IN \A c \in ChannelIndices :
              OnChannel(cut, c) # {} =>
                 /\ Cardinality(OnChannel(near_peaks, c)) = 1
                 /\ \A i \in OnChannel(near_peaks, c), j \in OnChannel(cut, c) :
                        i \in OnChannel(cut, c) /\ dist[i] <= dist[j]

(* get_near_peaks returned for a near set with two duplicated channels,    *)
(* on one of which the closest anomaly was not the first.                  *)
C21_Witness ==
    /\ pc = "got"
    /\ LET dist == Dist(ind, full_peak_positions)
           cut == TruncatedNear(ind)
       IN /\ Cardinality(DuplicatedChannels(cut)) >= 2
          /\ \E c \in DuplicatedChannels(cut) :
                \E i, j \in OnChannel(cut, c) : i < j /\ dist[j] < dist[i]

---------------------------------------------------------------------------
(* Steps of the clustering scan, under Spec. *)

(* The scan takes the anomaly at ind as a seed in this step (line 337). *)
SeedTaken == pc = "scan" /\ group_id' = group_id + 1

(* C22: an anomaly that already has a group id is never used as a seed;    *)
(* each emitted group has a seed of its own and there are never more       *)
(* emitted groups than anomalies.                                          *)
C22_LabelledNeverSeeds ==
    [][ SeedTaken =>
          /\ full_group_ids[ind] = -1
          /\ ind \notin Range(seeds)
          /\ seeds' \in { seeds, Append(seeds, ind) }
          /\ Len(groups') = Len(seeds')
          /\ Len(groups') <= Len(full_anomalies) ]_vars

(* The scan has passed over a labelled anomaly and has emitted a group. *)
C22_Witness ==
    /\ pc = "scan"
    /\ seeds # << >>
    /\ group_id + 1 < ind - 1

(* The cluster of the seed at ind is discarded in this step. *)
SeedDiscarded ==
    /\ pc = "scan"
    /\ ind <= Len(full_anomalies)
    /\ full_group_ids[ind] = -1
    /\ LET near == get_near_peaks(ind, full_channels, full_peak_positions)
       IN \/ Cardinality({ full_channels[near[k]] : k \in 1 .. Len(near) }) < min_channels
          \/ Len(near) = 0

(* C23: when the cluster of a seed is discarded, the group ids of all      *)
(* anomalies and the list of emitted groups stay as they are, and the scan *)
(* goes on with the next anomaly.                                          *)
C23_DiscardChangesNothing ==
    [][ SeedDiscarded =>
          /\ full_group_ids' = full_group_ids
          /\ groups' = groups
          /\ ind' = ind + 1
          /\ pc' = "scan" ]_vars

(* An anomaly the scan has passed is still unlabelled although its cluster *)
(* is not empty: its cluster was discarded for its number of channels.     *)
C23_Witness ==
    /\ pc = "scan"
    /\ \E i \in 1 .. Len(full_anomalies) :
          /\ i < ind
          /\ full_group_ids[i] = -1
          /\ get_near_peaks(i, full_channels, full_peak_positions) # << >>

---------------------------------------------------------------------------
(* The working list after a merge pass, under SpecMerge. *)

PassDone == pc = "pass" /\ passes >= 1

(* C24: at the end of every merge pass, every group of the working list    *)
(* has at most n_groups subgroups.                                         *)
C24_AtMostNGroups ==
    PassDone =>
        \A k \in 1 .. Len(groups) : Cardinality(Subgroups(groups[k])) <= n_groups

(* After a pass with n_groups >= 2, the list holds two groups within the   *)
(* separation budget, without a common subgroup, that are too large to be  *)
(* merged.                                                                 *)
C24_Witness ==
    /\ PassDone
    /\ n_groups >= 2
    /\ \E i, j \in 1 .. Len(groups) :
          /\ Subgroups(groups[i]) \cap Subgroups(groups[j]) = {}
          /\ Near(groups[i], groups[j])
          /\ Cardinality(Subgroups(groups[i]))
                + Cardinality(Subgroups(groups[j])) > n_groups

(* A merge pass runs in this step. *)
PassStep == pc = "pass" /\ passes' = passes + 1

(* C25: every composite a pass adds to the working list was made of two    *)
(* groups g and h of the list whose subgroup sets are disjoint; its        *)
(* subgroups are their union and its anomalies those of g followed by      *)
(* those of h.                                                             *)
C25_CompositeOfDisjointOperands ==
    [][ PassStep =>
          /\ Len(groups') >= Len(groups)
          /\ \A k \in Len(groups) + 1 .. Len(groups') :
                \E i \in 1 .. Len(groups) :
                   /\ Subgroups(groups[i]) \subseteq groups'[k].subs
                   /\ Len(groups[i].anomalies) < Len(groups'[k].anomalies)
                   /\ \E j \in 1 .. Len(groups) :
                         /\ Len(groups[i].anomalies) + Len(groups[j].anomalies)
                                = Len(groups'[k].anomalies)
                         /\ Subgroups(groups[i]) \cap Subgroups(groups[j]) = {}
                         /\ groups'[k].subs
                                = Subgroups(groups[i]) \cup Subgroups(groups[j])
                         /\ groups'[k].anomalies
                                = groups[i].anomalies \o groups[j].anomalies ]_vars

(* A pass has merged a composite of two with a base group. *)
C25_Witness ==
    /\ PassDone
    /\ \E k \in 1 .. Len(groups) : Cardinality(groups[k].subs) = 3

(***************************************************************************)
(* The PeakFinder application (application.py): the callbacks that fill    *)
(* the line_ids and line_indices stores, the update_from_property_groups   *)
(* flag and the cache of computed lines, PeakFinder.lines.                 *)
(*                                                                         *)
(* The server runs every callback in a thread of its own.  A callback that *)
(* does not touch PeakFinder.lines is one action.  compute_line shares the *)
(* cache with the other calls of compute_line and with the setter of       *)
(* PeakFinder.lines, without a lock: it is one action for each of its      *)
(* accesses to the cache, with the other threads free to run between two  *)
(* of them, and an access that finds no cache, or not the entry it has     *)
(* made, ends the call with the exception Python raises.  The reads of     *)
(* one statement that appends to an entry (line 723, lines 725-727) are    *)
(* one action: an assignment of the cache or of the entry by another       *)
(* thread between them leaves what the same assignment leaves when it      *)
(* comes after the statement, the appended item being lost with the dict   *)
(* that held it.                                                           *)
(*                                                                         *)
(* `triggers` is the set of inputs of compute_line that have changed since *)
(* its last call; ac_triggers, li_triggers and the fields of `pending` are *)
(* the same for the other callbacks.  The sets are filled by the user's    *)
(* actions and by the callbacks whose outputs they are, following the      *)
(* registrations of lines 92-159.  A callback is called once no callback   *)
(* that writes one of its inputs, directly or through others, is waiting.  *)
(***************************************************************************)

(* The values of n_lines the user can enter (layout.py lines 87-92:        *)
(* min = 0, step = 1).                                                     *)
NLinesValues == 0 .. 1

(* The values of n_lines of the direct calls of get_line_ids. *)
NLinesCalls == 0 .. MaxLines + 1

(* An optional value: << >> is None, << v >> is v. *)
Optional(S) == { << >> } \cup { << v >> : v \in S }

(* The options of the line_id dropdown, a list of label/value dicts, as    *)
(* update_line_id_options makes it from the line field (lines 432-439).    *)
line_id_options == [ k \in 1 .. MaxLines |-> [ label |-> k, value |-> 10 + k ] ]

(* Number of parts of a line: np.unique(survey_obj.parts[...]) of         *)
(* get_line_indices, line 610.  The last line of the survey is in two     *)
(* parts, the others in one.                                              *)
line_parts(line) == IF line = 10 + MaxLines THEN 2 ELSE 1

(* no_update, as the value a callback returns. *)
no_update == << >>

(* application.py lines 415-444, PeakFinder.update_line_id_options: the    *)
(* options and the value of the line_id dropdown.  The line id is kept     *)
(* when the line field has it, and is the first option otherwise.          *)
update_line_id_options(field, line) ==
    IF field = << >>
    THEN [ options |-> << >>, line_id |-> << >> ]
    ELSE [ options |-> line_id_options,
           line_id |->
               IF line # << >>
                  /\ \E k \in 1 .. Len(line_id_options) :
                         line_id_options[k].value = line[1]
               THEN line
               ELSE << line_id_options[1].value >> ]

(* application.py lines 562-572: max_ind with the + 1 left out. *)
max_ind_short(length, line_id_ind, n_lines) ==
    IF length < line_id_ind + n_lines THEN length ELSE line_id_ind + n_lines

(* application.py line 569: min(len(full_line_ids), line_id_ind + n_lines + 1) *)
max_ind(length, line_id_ind, n_lines) ==
    IF length < line_id_ind + n_lines + 1
    THEN length ELSE line_id_ind + n_lines + 1

(* application.py line 568: max(0, line_id_ind - n_lines) *)
min_ind(line_id_ind, n_lines) ==
    IF line_id_ind - n_lines < 0 THEN 0 ELSE line_id_ind - n_lines

(* application.py lines 547-572, PeakFinder.get_line_ids.  Indices are     *)
(* those of Python (from 0); the slice [lo : hi] is SubSeq(lo + 1, hi).    *)
get_line_ids(options, line_id, n_lines) ==
    IF line_id = << >> \/ n_lines = << >>
    THEN no_update
    ELSE LET full_line_ids == [ k \in 1 .. Len(options) |-> options[k].value ]
             line_id_ind ==
                 SetMin({ k \in 1 .. Len(full_line_ids) :
                              full_line_ids[k] = line_id[1] }) - 1
             lo == min_ind(line_id_ind, n_lines[1])
             hi == max_ind(Len(full_line_ids), line_id_ind, n_lines[1])
         IN  << Tuple(SubSeq(full_line_ids, lo + 1, hi)) >>

(* application.py lines 574-617, PeakFinder.get_line_indices: the dict of  *)
(* the indices of every part of every line, keyed by str(line_id), as the  *)
(* list of its items.  `entities` tells whether the workspace holds the    *)
(* survey and the line field with their values (lines 595-601).            *)
get_line_indices(survey, line_field, ids, entities) ==
    IF survey = << >> \/ line_field = << >> \/ ids = << >>
    THEN no_update
    ELSE IF ~entities
    THEN no_update
    ELSE << [ k \in 1 .. Len(ids[1]) |->
                << ToString(ids[1][k]),
                   [ part \in 1 .. line_parts(ids[1][k]) |-> part ] >> ] >>

(* A LineGroup as the driver makes it: _groups is None, and `computes` is  *)
(* the list its compute() returns, one group of the part of the line,      *)
(* found by the call numbered `call`.                                      *)
DriverLineGroup(line, part, call) ==
    [ _groups |-> << >>, computes |-> << << line, part, call >> >> ]

(* line_group.py lines 56-63, LineGroup.groups: the list the property      *)
(* returns.                                                                *)
LineGroupGroups(line_group) ==
    IF line_group._groups = << >>
    THEN line_group.computes
    ELSE line_group._groups[1]

(* line_group.py lines 61-62: the LineGroup after its groups were read. *)
LineGroupRead(line_group) ==
    IF line_group._groups = << >>
    THEN [ line_group EXCEPT !._groups = Stored(line_group.computes) ]
    ELSE line_group

(* One result of the driver: the anomalies found on one part of a line.   *)
(* `position` stands for the LinePosition of the part as the call made    *)
(* it; `anomalies` is the list of the LineGroup of the part, or None, as  *)
(* it is here for the second part of a line.                              *)
LineAnomaly(line, part, call) ==
    [ line_id |-> line,
      position |-> << part, call >>,
      anomalies |-> IF part = 1
                    THEN << << DriverLineGroup(line, part, call) >> >>
                    ELSE << >> ]

(* PeakFinderDriver.compute_lines followed by dask's compute: the results *)
(* for the line ids asked for, one per part, in the order of the ids.     *)
RECURSIVE compute_lines(_, _)
compute_lines(ids, call) ==
    IF ids = << >>
    THEN << >>
    ELSE [ part \in 1 .. line_parts(Head(ids)) |->
               LineAnomaly(Head(ids), part, call) ]
         \o compute_lines(Tail(ids), call)

(* application.py lines 676-680: the line ids are selected, the lines of  *)
(* the cache being left out.                                              *)
SelectsLineIds(trig, lines) ==
    "line_ids" \in trig /\ lines # << >> /\ "objects" \notin trig

(* application.py line 681 with every line taken as missing. *)
LineIdsSubsetAll(subset, line, lines) == Append(subset, line)

(* application.py line 681, one turn of the comprehension: the line id is *)
(* added to line_ids_subset when it is not a key of the cache.            *)
LineIdsSubset(subset, line, lines) ==
    IF line \notin DOMAIN lines THEN Append(subset, line) ELSE subset

(* application.py line 703: the keys, among those the iteration over the  *)
(* cache gives, that line_ids has no more.                                *)
EntriesToRemove(keys, ids) ==
    { line \in keys : line \notin Range(ids) }

(* application.py line 702: the cache is kept. *)
KeepsCache(trig, lines) ==
    lines # << >> /\ Cardinality(trig) = 1 /\ "line_ids" \in trig

(* application.py line 705: self.lines.pop(key, None). *)
Popped(lines, key) ==
    [ line \in DOMAIN lines \ { key } |-> lines[line] ]

(* application.py lines 713-717: line_anomalies, the groups of the line   *)
(* groups of a result.                                                    *)
LineAnomalies(line_anomaly) ==
    IF line_anomaly.anomalies = << >>
    THEN << >>
    ELSE Flatten([ k \in 1 .. Len(line_anomaly.anomalies[1]) |->
                       LineGroupGroups(line_anomaly.anomalies[1][k]) ])

(* application.py lines 719-722: the cache with a new entry for the line, *)
(* in the place of the entry it may have.                                 *)
WithEntry(lines, key) ==
    [ line \in DOMAIN lines \cup { key } |->
        IF line = key
        THEN [ position |-> << >>, anomalies |-> << >> ]
        ELSE lines[line] ]

(* application.py line 723: the anomalies are appended to the entry. *)
WithAnomalies(lines, line_anomaly) ==
    [ lines EXCEPT ![line_anomaly.line_id].anomalies =
          Append(@, LineAnomalies(line_anomaly)) ]

(* application.py lines 725-727: the position is appended to the entry. *)
WithPosition(lines, line_anomaly) ==
    [ lines EXCEPT ![line_anomaly.line_id].position =
          Append(@, line_anomaly.position) ]

(* application.py lines 710-717: the results once the groups of the first *)
(* n of them were read, which stores the groups in their LineGroup        *)
(* (line_group.py line 62).                                               *)
ResultsRead(res, n) ==
    [ r \in 1 .. Len(res) |->
        IF res[r].anomalies = << >> \/ r > n
        THEN res[r]
        ELSE [ res[r] EXCEPT !.anomalies =
                 << [ k \in 1 .. Len(res[r].anomalies[1]) |->
                        LineGroupRead(res[r].anomalies[1][k]) ] >> ] ]

(* application.py lines 656-666: the test in front of compute_line. *)
ReturnsNoUpdate(objs, ids, indices, trig, flag) ==
    \/ objs = << >>
    \/ ids = << >>
    \/ indices = << >>
    \/ ("update_from_property_groups" \in trig /\ ~flag)

(* application.py lines 358-380 with the flag set whatever the trigger. *)
FlagAlways(trigger) == TRUE

(* application.py lines 358-380: update_from_property_groups as returned  *)
(* by update_property_groups for a trigger, "None" being the trigger of   *)
(* the first call, ctx.triggered_id is None.                              *)
FlagFor(trigger) == trigger = "property_groups" \/ trigger = "None"

(* application.py lines 361-365: property_groups[group_name] raises       *)
(* KeyError when no group name is chosen.                                 *)
RaisesKeyError(trigger, group_name) ==
    trigger \in { "group_name", "color_picker" } /\ group_name = << >>

(* application.py lines 361-388: the outputs update_property_groups       *)
(* writes that are inputs of other callbacks, with the property groups    *)
(* store when it is the input that changed.                               *)
ChangedFor(trigger) ==
    IF trigger \in { "color_picker", "property_groups" }
    THEN { "property_groups", "update_from_property_groups" }
    ELSE { "update_from_property_groups" }

(* The values handed to the setter of PeakFinder.lines (lines 279-281):   *)
(* None, an empty dict, a dict with the entry of a line.                  *)
LinesValues ==
    { << >>,
      << << >> >>,
      << [ line \in { 10 + MaxLines } |->
             [ position |-> << << 1, 0 >> >>, anomalies |-> << << >> >> ] ] >> }

(* The variables of the LineGroup of the first part of the module, which  *)
(* is not one of the LineGroup the driver makes.                          *)
instance == << params, memo, pc, ind, group_id, full_group_ids, groups,
              passes, next_id, merge_calls, seeds, outputs >>

(* The user, or the code that holds the application, acts once more. *)
Acts ==
    /\ acted.user < MaxActions
    /\ acted' = [ acted EXCEPT !.user = @ + 1 ]

(* The code that holds the application assigns lines once more. *)
Assigns ==
    /\ acted.holder < MaxAssignments
    /\ acted' = [ acted EXCEPT !.holder = @ + 1 ]

(* Lines 112-120: update_active_channels can be called. *)
ReadyActiveChannels == ac_triggers # {}

(* Lines 121-128: mask_data can be called; its input active_channels is   *)
(* written by update_active_channels.                                     *)
ReadyMaskData == pending.mask_data # {} /\ ac_triggers = {}

(* Lines 92-97: update_line_id_options can be called; its input           *)
(* line_field.value is written by mask_data.                              *)
ReadyLineIdOptions ==
    /\ pending.update_line_id_options # {}
    /\ pending.mask_data = {}
    /\ ac_triggers = {}

(* Lines 129-134: get_line_ids can be called; line_id.options and         *)
(* line_id.value are written by update_line_id_options.                   *)
ReadyLineIds ==
    /\ pending.get_line_ids # {}
    /\ pending.update_line_id_options = {}
    /\ pending.mask_data = {}
    /\ ac_triggers = {}

(* Lines 135-140: get_line_indices can be called; its inputs are written  *)
(* by mask_data and get_line_ids.                                         *)
ReadyLineIndices ==
    /\ li_triggers # {}
    /\ pending = NonePending
    /\ ac_triggers = {}

(* Lines 141-159: compute_line can be called. *)
ReadyComputeLine ==
    /\ triggers # {}
    /\ li_triggers = {}
    /\ pending = NonePending
    /\ ac_triggers = {}

(* No callback is waiting to be called. *)
Settled ==
    triggers = {} /\ ac_triggers = {} /\ li_triggers = {}
    /\ pending = NonePending

(* The sequence s without its element of index i. *)
Without(s, i) == SubSeq(s, 1, i - 1) \o SubSeq(s, i + 1, Len(s))

(* The record of a call of compute_line that has ended: what it returned  *)
(* or "error", what it was called with, and the results of the driver     *)
(* when the call has got as far as the driver.                            *)
Ended(out, this, read) ==
    [ out |-> out,
      triggers |-> this.triggers,
      line_ids |-> this.line_ids,
      line_ids_subset |-> this.line_ids_subset,
      cached |-> this.cached,
      assigned |-> this.assigned,
      alone |-> this.alone,
      call |-> this.call,
      results |-> IF this.at \in { "select", "subset" }
                  THEN << >>
                  ELSE ResultsRead(compute_lines(this.line_ids_subset,
                                                 this.call), read) ]

(* A call of compute_line that iterates over the dict of the cache (line  *)
(* 703) when another thread assigns self.lines: the call goes on with the *)
(* dict it has, whose keys are from now on those of that moment.          *)
Detached(this, lines) ==
    IF this.at = "collect" /\ this.same
    THEN [ this EXCEPT !.same = FALSE, !.then = DOMAIN lines[1] ]
    ELSE this

(* The application as it starts, or as it is once the user has picked a   *)
(* group name (layout.py lines 158-164) and the callbacks that this       *)
(* triggers have returned: update_property_groups has written the flag    *)
(* False (line 388), update_active_channels has raised PreventUpdate      *)
(* (lines 462-468) and compute_line has returned no_update (lines         *)
(* 656-666), so that nothing but the value of the dropdown has changed.   *)
LayoutsAtStart ==
    { LayoutStart, [ LayoutStart EXCEPT !.group_name = << "group" >> ] }

InitApp ==
    /\ full_anomalies = << >>
    /\ max_migration = 0
    /\ min_channels = 0
    /\ n_groups = 1
    /\ max_separation = 0
    /\ sampling = 1
    /\ tie = "stable"
    /\ pc = "app"
    /\ ind = 1
    /\ group_id = -1
    /\ full_group_ids = << >>
    /\ groups = << >>
    /\ passes = 0
    /\ next_id = 1
    /\ merge_calls = 0
    /\ seeds = << >>
    /\ outputs = << >>
    /\ _groups = << >>
    /\ compute_calls = 0
    /\ _channels = << >>
    /\ results = << >>
    /\ near_peaks = << >>
    /\ _lines = << >>
    /\ objects \in Optional({ "survey" })
    /\ layout \in LayoutsAtStart
    /\ line_ids = << >>
    /\ line_indices = << >>
    /\ update_from_property_groups = FALSE
    /\ update_computation = 0
    /\ triggers = {}
    /\ ac_triggers = {}
    /\ li_triggers = {}
    /\ pending = NonePending
    /\ running = << >>
    /\ started = 0
    /\ cause = "other"
    /\ acted = [ user |-> 0, holder |-> 0 ]
    /\ calls = NoReturn

(* The user picks a line of the line_id dropdown (layout.py line 47), an  *)
(* input of get_line_ids (line 132).                                      *)
PickLine ==
    /\ pc = "app"
    /\ Acts
    /\ calls' = NoReturn
    /\ cause' = "other"
    /\ \E k \in 1 .. Len(layout.options) :
          layout' = [ layout EXCEPT !.line_id = << layout.options[k].value >> ]
    /\ pending' = [ pending EXCEPT !.get_line_ids = @ \cup { "line_id" } ]
    /\ UNCHANGED << instance, _lines, objects, line_ids, line_indices,
                    update_from_property_groups, update_computation, triggers,
                    ac_triggers, li_triggers, running, started >>

(* The user enters a number of lines or clears it (layout.py lines        *)
(* 87-92), an input of get_line_ids (line 133).                           *)
SetNLines ==
    /\ pc = "app"
    /\ Acts
    /\ calls' = NoReturn
    /\ cause' = "other"
    /\ \E n \in Optional(NLinesValues) :
          layout' = [ layout EXCEPT !.n_lines = n ]
    /\ pending' = [ pending EXCEPT !.get_line_ids = @ \cup { "n_lines" } ]
    /\ UNCHANGED << instance, _lines, objects, line_ids, line_indices,
                    update_from_property_groups, update_computation, triggers,
                    ac_triggers, li_triggers, running, started >>

(* The user picks a line field or clears it (layout.py line 26), an input *)
(* of mask_data (line 124), update_line_id_options (line 95) and          *)
(* get_line_indices (line 138).                                           *)
SetLineField ==
    /\ pc = "app"
    /\ Acts
    /\ calls' = NoReturn
    /\ cause' = "other"
    /\ \E field \in Optional({ "line_field" }) :
          layout' = [ layout EXCEPT !.line_field = field ]
    /\ pending' = [ pending EXCEPT
                      !.mask_data = @ \cup { "line_field" },
                      !.update_line_id_options = @ \cup { "line_field" } ]
    /\ li_triggers' = li_triggers \cup { "line_field" }
    /\ UNCHANGED << instance, _lines, objects, line_ids, line_indices,
                    update_from_property_groups, update_computation, triggers,
                    ac_triggers, running, started >>

(* The user picks masking data (layout.py line 68), an input of mask_data *)
(* (line 125).                                                            *)
SetMaskingData ==
    /\ pc = "app"
    /\ Acts
    /\ calls' = NoReturn
    /\ cause' = "other"
    /\ pending' = [ pending EXCEPT !.mask_data = @ \cup { "masking_data" } ]
    /\ UNCHANGED << instance, _lines, objects, layout, line_ids, line_indices,
                    update_from_property_groups, update_computation, triggers,
                    ac_triggers, li_triggers, running, started >>

(* The user ticks flip_sign (layout.py line 101), an input of             *)
(* update_active_channels (line 115).                                     *)
FlipSign ==
    /\ pc = "app"
    /\ Acts
    /\ calls' = NoReturn
    /\ cause' = "other"
    /\ ac_triggers' = ac_triggers \cup { "flip_sign" }
    /\ UNCHANGED << instance, _lines, objects, layout, line_ids, line_indices,
                    update_from_property_groups, update_computation, triggers,
                    li_triggers, pending, running, started >>

(* application.py lines 141-159: the user changes a parameter of the      *)
(* detection, an input of compute_line alone.                             *)
InputChange ==
    /\ pc = "app"
    /\ Acts
    /\ calls' = NoReturn
    /\ cause' = "other"
    /\ triggers' = triggers \cup { "smoothing" }
    /\ UNCHANGED << instance, _lines, objects, layout, line_ids, line_indices,
                    update_from_property_groups, update_computation,
                    ac_triggers, li_triggers, pending, running, started >>

(* application.py lines 98-111 and 327-388: update_property_groups, on    *)
(* its first call ("None"), when the user picks a group name or clears    *)
(* it, when the user picks a colour, or when the property groups change.  *)
(* A call that raises KeyError (lines 362, 365) writes no output.         *)
UpdatePropertyGroups ==
    /\ pc = "app"
    /\ Acts
    /\ calls' = NoReturn
    /\ \E trigger \in { "None", "group_name", "color_picker",
                        "property_groups" },
          name \in Optional({ "group" }) :
           LET group_name == IF trigger = "group_name"
                             THEN name ELSE layout.group_name
           IN  /\ layout' = [ layout EXCEPT !.group_name = group_name ]
               /\ IF RaisesKeyError(trigger, group_name)
                  THEN UNCHANGED << update_from_property_groups, cause,
                                    triggers, ac_triggers >>
                  ELSE /\ update_from_property_groups' = FlagFor(trigger)
                       /\ cause' = IF trigger = "color_picker"
                                   THEN trigger ELSE "other"
                       /\ triggers' = triggers \cup ChangedFor(trigger)
                       /\ ac_triggers' = ac_triggers \cup ChangedFor(trigger)
    /\ UNCHANGED << instance, _lines, objects, line_ids, line_indices,
                    update_computation, li_triggers, pending, running,
                    started >>

(* application.py lines 112-120 and 446-508: update_active_channels.  It  *)
(* raises PreventUpdate (lines 462-468) or writes active_channels, the    *)
(* input of mask_data, and min_value, an input of compute_line that it    *)
(* may leave as it is (lines 503-505).                                    *)
UpdateActiveChannels ==
    /\ pc = "app"
    /\ calls' = NoReturn
    /\ ReadyActiveChannels
    /\ ac_triggers' = {}
    /\ IF "update_from_property_groups" \in ac_triggers
          /\ ~update_from_property_groups
       THEN UNCHANGED << triggers, pending >>
       ELSE /\ \E min_value \in SUBSET { "min_value" } :
                  triggers' = triggers \cup min_value
            /\ pending' = [ pending EXCEPT
                              !.mask_data = @ \cup { "active_channels" } ]
    /\ UNCHANGED << instance, acted, _lines, objects, layout, line_ids, line_indices,
                    update_from_property_groups, update_computation,
                    li_triggers, running, started, cause >>

(* application.py lines 121-128 and 510-546: mask_data.  It returns the   *)
(* objects and the line field it was given, which are inputs of           *)
(* update_line_id_options, get_line_indices and compute_line.  Without    *)
(* objects it raises (line 527) and writes nothing.                       *)
MaskData ==
    /\ pc = "app"
    /\ calls' = NoReturn
    /\ ReadyMaskData
    /\ IF objects = << >>
       THEN /\ pending' = [ pending EXCEPT !.mask_data = {} ]
            /\ UNCHANGED << triggers, li_triggers >>
       ELSE /\ pending' = [ pending EXCEPT
                              !.mask_data = {},
                              !.update_line_id_options =
                                  @ \cup { "line_field" } ]
            /\ triggers' = triggers \cup { "objects" }
            /\ li_triggers' = li_triggers \cup { "objects", "line_field" }
    /\ UNCHANGED << instance, acted, _lines, objects, layout, line_ids, line_indices,
                    update_from_property_groups, update_computation,
                    ac_triggers, running, started, cause >>

(* application.py lines 92-97 and 415-444: update_line_id_options writes  *)
(* the options and the value of the line_id dropdown, the inputs of       *)
(* get_line_ids.  It raises when the workspace has not the line field     *)
(* (lines 430-431) and then writes nothing.                               *)
UpdateLineIdOptions ==
    /\ pc = "app"
    /\ calls' = NoReturn
    /\ ReadyLineIdOptions
    /\ \E entities \in BOOLEAN :
          IF layout.line_field # << >> /\ ~entities
          THEN /\ pending' = [ pending EXCEPT !.update_line_id_options = {} ]
               /\ UNCHANGED layout
          ELSE LET out == update_line_id_options(layout.line_field,
                                                 layout.line_id)
               IN  /\ layout' = [ layout EXCEPT !.options = out.options,
                                                !.line_id = out.line_id ]
                   /\ pending' = [ pending EXCEPT
                                     !.update_line_id_options = {},
                                     !.get_line_ids = @ \cup { "line_id" } ]
    /\ UNCHANGED << instance, acted, _lines, objects, line_ids, line_indices,
                    update_from_property_groups, update_computation, triggers,
                    ac_triggers, li_triggers, running, started, cause >>

(* application.py lines 129-134 and 547-572: get_line_ids is called with  *)
(* the options, the line and the number of lines.  Its output line_ids is *)
(* an input of get_line_indices (lines 135-140) and of compute_line.      *)
GetLineIds ==
    /\ pc = "app"
    /\ calls' = NoReturn
    /\ ReadyLineIds
    /\ pending' = [ pending EXCEPT !.get_line_ids = {} ]
    /\ LET out == get_line_ids(layout.options, layout.line_id, layout.n_lines)
       IN  IF out = no_update
           THEN UNCHANGED << line_ids, triggers, li_triggers >>
           ELSE /\ line_ids' = out
                /\ triggers' = triggers \cup { "line_ids" }
                /\ li_triggers' = li_triggers \cup { "line_ids" }
    /\ UNCHANGED << instance, acted, _lines, objects, layout, line_indices,
                    update_from_property_groups, update_computation,
                    ac_triggers, running, started, cause >>

(* application.py lines 135-140 and 574-617: get_line_indices.  Its       *)
(* output line_indices is an input of compute_line.                       *)
GetLineIndices ==
    /\ pc = "app"
    /\ calls' = NoReturn
    /\ ReadyLineIndices
    /\ li_triggers' = {}
    /\ \E entities \in BOOLEAN :
          LET out == get_line_indices(objects, layout.line_field, line_ids,
                                      entities)
          IN  IF out = no_update
              THEN UNCHANGED << line_indices, triggers >>
              ELSE /\ line_indices' = out
                   /\ triggers' = triggers \cup { "line_indices" }
    /\ UNCHANGED << instance, acted, _lines, objects, layout, line_ids,
                    update_from_property_groups, update_computation,
                    ac_triggers, pending, running, started, cause >>

(* application.py lines 656-675: compute_line is called.  It returns      *)
(* no_update at once, or raises AttributeError at line 670 when the        *)
(* workspace has not the survey, or goes on with line_ids_subset =         *)
(* line_ids, to the test of line 678 when line_ids is among the triggers   *)
(* and to the driver otherwise.                                            *)
ComputeLineStart ==
    /\ pc = "app"
    /\ ReadyComputeLine
    /\ triggers' = {}
    /\ \E entities \in BOOLEAN :
          IF ReturnsNoUpdate(objects, line_ids, line_indices, triggers,
                             update_from_property_groups) \/ ~entities
          THEN /\ calls' = [ calls EXCEPT !.compute_line =
                     << [ out |-> IF ReturnsNoUpdate(objects, line_ids,
                                        line_indices, triggers,
                                        update_from_property_groups)
                                  THEN "no_update" ELSE "error",
                          triggers |-> triggers,
                          line_ids |-> << >>,
                          line_ids_subset |-> << >>,
                          cached |-> {},
                          assigned |-> FALSE,
                          alone |-> TRUE,
                          call |-> 0,
                          results |-> << >> ] >> ]
               /\ UNCHANGED << running, started >>
          ELSE /\ started < MaxComputations
               /\ Len(running) < MaxRunning
               /\ started' = started + 1
               /\ running' = Append(running,
                      [ line_ids |-> line_ids[1],
                        triggers |-> triggers,
                        update_computation |-> update_computation,
                        line_ids_subset |-> line_ids[1],
                        cached |-> {},
                        assigned |-> FALSE,
                        alone |-> TRUE,
                        call |-> started + 1,
                        at |-> IF "line_ids" \in triggers
                               THEN "select" ELSE "test",
                        k |-> 1,
                        keys |-> {},
                        same |-> TRUE,
                        touched |-> FALSE,
                        then |-> {} ])
               /\ calls' = NoReturn
    /\ UNCHANGED << instance, acted, _lines, objects, layout, line_ids, line_indices,
                    update_from_property_groups, update_computation,
                    ac_triggers, li_triggers, pending, cause >>

(* What a step of a call of compute_line leaves as it is, but for the     *)
(* cache, the calls in progress and update_computation.                   *)
CallFrame ==
    UNCHANGED << instance, acted, objects, layout, line_ids, line_indices,
                 update_from_property_groups, triggers, ac_triggers,
                 li_triggers, pending, started, cause >>

(* A call of compute_line ends with an exception: Dash writes nothing. *)
Raises(i, read) ==
    /\ running' = Without(running, i)
    /\ calls' = [ calls EXCEPT !.compute_line =
                      << Ended("error", running[i], read) >> ]
    /\ UNCHANGED << _lines, update_computation >>

(* A call of compute_line goes on to its next access to the cache. *)
GoesOn(i, this) ==
    /\ running' = [ running EXCEPT ![i] = this ]
    /\ calls' = NoReturn
    /\ UNCHANGED update_computation

(* A call of compute_line in progress when another call runs a statement  *)
(* that writes to the cache: it is no longer alone with the cache, and    *)
(* when it iterates over the dict (line 703) and a key is added to this   *)
(* dict or removed from it, the size of the dict has changed during the   *)
(* iteration.                                                             *)
Touched(this, changed) ==
    IF changed /\ this.at = "collect" /\ this.same
    THEN [ this EXCEPT !.touched = TRUE, !.alone = FALSE ]
    ELSE [ this EXCEPT !.alone = FALSE ]

(* A call of compute_line goes on after a statement that writes to the    *)
(* dict of the cache, which has changed its keys or not.                  *)
GoesOnWith(i, this, changed) ==
    /\ running' = [ j \in 1 .. Len(running) |->
                      IF j = i THEN this ELSE Touched(running[j], changed) ]
    /\ calls' = NoReturn
    /\ UNCHANGED update_computation

(* Each action below is one access of a call of compute_line to           *)
(* self.lines; the calls run in threads that share the application        *)
(* without a lock, so that any step of another call, or an assignment of  *)
(* lines, can come between two of them.  A statement that loads           *)
(* self.lines and then writes to the dict it got (lines 705, 719, 723,    *)
(* 725-727) is one step: were the attribute assigned between the load and *)
(* the write, the write would go to the dict that has just been dropped,  *)
(* which is what the write followed by the assignment gives.              *)

(* application.py lines 676-680: the test of the selection, which reads   *)
(* self.lines once.  The call goes on to the comprehension of line 681 or *)
(* to the driver with all of line_ids.                                    *)
ComputeLineSelect ==
    /\ pc = "app"
    /\ CallFrame
    /\ \E i \in 1 .. Len(running) :
          /\ running[i].at = "select"
          /\ IF SelectsLineIds(running[i].triggers, _lines)
             THEN GoesOn(i, [ running[i] EXCEPT
                      !.at = IF running[i].line_ids = << >>
                             THEN "test" ELSE "subset",
                      !.line_ids_subset = << >> ])
             ELSE GoesOn(i, [ running[i] EXCEPT !.at = "test" ])
          /\ UNCHANGED _lines

(* application.py line 681, one turn of the comprehension: self.lines is  *)
(* read for the next line id, which is passed to the driver (lines        *)
(* 683-699) when the cache has it not.  `line not in self.lines` raises   *)
(* TypeError when the cache is None by now.  `cached` keeps the line ids  *)
(* found in the cache as the driver had computed them.                    *)
ComputeLineSubset ==
    /\ pc = "app"
    /\ CallFrame
    /\ \E i \in 1 .. Len(running) :
          LET this == running[i]
              line == this.line_ids[this.k]
          IN  /\ this.at = "subset"
              /\ IF _lines = << >>
                 THEN Raises(i, 0)
                 ELSE /\ GoesOn(i, [ this EXCEPT
                             !.line_ids_subset =
                                 LineIdsSubset(@, line, _lines[1]),
                             !.cached =
                                 IF /\ line \in DOMAIN _lines[1]
                                    /\ \E p \in 1 .. Len(_lines[1][line].position) :
                                           _lines[1][line].position[p][2] > 0
                                 THEN @ \cup { line } ELSE @,
                             !.k = IF this.k = Len(this.line_ids)
                                   THEN 1 ELSE this.k + 1,
                             !.at = IF this.k = Len(this.line_ids)
                                    THEN "test" ELSE "subset" ])
                      /\ UNCHANGED _lines

(* application.py lines 683-702: the driver has returned the results and  *)
(* the test of line 702 reads self.lines.  The call goes on to remove the *)
(* un-needed lines of the cache or to replace the cache.                  *)
ComputeLineTest ==
    /\ pc = "app"
    /\ CallFrame
    /\ \E i \in 1 .. Len(running) :
          /\ running[i].at = "test"
          /\ GoesOn(i, [ running[i] EXCEPT
                 !.at = IF KeepsCache(running[i].triggers, _lines)
                        THEN "iterate" ELSE "reset" ])
          /\ UNCHANGED _lines

(* application.py line 707: self.lines = {}. *)
ComputeLineReset ==
    /\ pc = "app"
    /\ CallFrame
    /\ \E i \in 1 .. Len(running) :
          /\ running[i].at = "reset"
          /\ running' = [ j \in 1 .. Len(running) |->
                            IF j = i
                            THEN [ running[i] EXCEPT !.at = "store" ]
                            ELSE [ Detached(running[j], _lines)
                                     EXCEPT !.alone = FALSE ] ]
          /\ calls' = NoReturn
          /\ _lines' = << << >> >>
          /\ UNCHANGED update_computation

(* application.py line 703: the comprehension reads self.lines and starts *)
(* to iterate over the dict; `for line in self.lines` raises TypeError    *)
(* when the cache is None by now.                                         *)
ComputeLineIterate ==
    /\ pc = "app"
    /\ CallFrame
    /\ \E i \in 1 .. Len(running) :
          /\ running[i].at = "iterate"
          /\ IF _lines = << >>
             THEN Raises(i, 0)
             ELSE /\ GoesOn(i, [ running[i] EXCEPT
                         !.at = "collect",
                         !.keys = DOMAIN _lines[1] ])
                  /\ UNCHANGED _lines

(* application.py line 703: the iteration ends.  It raises RuntimeError   *)
(* when the dict has not the size it had when the iteration started.      *)
(* When keys were added and as many removed in between, it raises         *)
(* RuntimeError, if the iterator was advanced while the size differed, or *)
(* gives the keys the dict has now.                                       *)
ComputeLineCollect ==
    /\ pc = "app"
    /\ CallFrame
    /\ \E i \in 1 .. Len(running) :
          LET this == running[i]
              now == IF this.same THEN DOMAIN _lines[1] ELSE this.then
              entries_to_remove == EntriesToRemove(now, this.line_ids)
          IN  /\ this.at = "collect"
              /\ \/ /\ this.touched
                    /\ Raises(i, 0)
                 \/ /\ Cardinality(now) = Cardinality(this.keys)
                    /\ GoesOn(i, [ this EXCEPT
                           !.at = IF entries_to_remove = {}
                                  THEN "store" ELSE "remove",
                           !.keys = entries_to_remove,
                           !.same = TRUE,
                           !.touched = FALSE,
                           !.then = {} ])
                    /\ UNCHANGED _lines

(* application.py lines 704-705: one of the entries to remove is popped   *)
(* from self.lines, in the order of the dict, which is any order here.    *)
(* self.lines.pop raises AttributeError when the cache is None by now,    *)
(* and pop(key, None) leaves a dict that has not the key as it is.        *)
ComputeLineRemove ==
    /\ pc = "app"
    /\ CallFrame
    /\ \E i \in 1 .. Len(running) :
          /\ running[i].at = "remove"
          /\ IF _lines = << >>
             THEN Raises(i, 0)
             ELSE \E key \in running[i].keys :
                     /\ GoesOnWith(i, [ running[i] EXCEPT
                            !.keys = @ \ { key },
                            !.at = IF running[i].keys = { key }
                                   THEN "store" ELSE "remove" ],
                            key \in DOMAIN _lines[1])
                     /\ _lines' = << Popped(_lines[1], key) >>

(* application.py lines 710-718: the next result is taken, the groups of  *)
(* its line groups are read and self.lines is read for the test of line   *)
(* 718, which raises TypeError when the cache is None by now.             *)
ComputeLineEntry ==
    /\ pc = "app"
    /\ CallFrame
    /\ \E i \in 1 .. Len(running) :
          LET this == running[i]
              res == compute_lines(this.line_ids_subset, this.call)
          IN  /\ this.at = "store"
              /\ this.k <= Len(res)
              /\ IF _lines = << >>
                 THEN Raises(i, this.k)
                 ELSE /\ GoesOn(i, [ this EXCEPT
                             !.at = IF res[this.k].line_id
                                         \notin DOMAIN _lines[1]
                                    THEN "create" ELSE "anomalies" ])
                      /\ UNCHANGED _lines

(* application.py lines 719-722: the entry of the line is assigned,       *)
(* whether or not another thread has made one since the test.  The        *)
(* assignment raises TypeError when the cache is None by now.             *)
ComputeLineCreate ==
    /\ pc = "app"
    /\ CallFrame
    /\ \E i \in 1 .. Len(running) :
          LET this == running[i]
              res == compute_lines(this.line_ids_subset, this.call)
          IN  /\ this.at = "create"
              /\ IF _lines = << >>
                 THEN Raises(i, this.k)
                 ELSE /\ GoesOnWith(i, [ this EXCEPT !.at = "anomalies" ],
                                     res[this.k].line_id
                                         \notin DOMAIN _lines[1])
                      /\ _lines' = << WithEntry(_lines[1],
                                                res[this.k].line_id) >>

(* application.py line 723: the anomalies of the result are appended to   *)
(* the entry of the line.  self.lines[line_id] raises TypeError when the  *)
(* cache is None by now and KeyError when it has not the entry.           *)
ComputeLineAnomalies ==
    /\ pc = "app"
    /\ CallFrame
    /\ \E i \in 1 .. Len(running) :
          LET this == running[i]
              res == compute_lines(this.line_ids_subset, this.call)
          IN  /\ this.at = "anomalies"
              /\ IF _lines = << >> \/ res[this.k].line_id \notin DOMAIN _lines[1]
                 THEN Raises(i, this.k)
                 ELSE /\ GoesOnWith(i, [ this EXCEPT !.at = "position" ],
                                     FALSE)
                      /\ _lines' = << WithAnomalies(_lines[1], res[this.k]) >>

(* application.py lines 725-727: the position of the result is appended   *)
(* to the entry of the line, with the exceptions of line 723.             *)
ComputeLinePosition ==
    /\ pc = "app"
    /\ CallFrame
    /\ \E i \in 1 .. Len(running) :
          LET this == running[i]
              res == compute_lines(this.line_ids_subset, this.call)
          IN  /\ this.at = "position"
              /\ IF _lines = << >> \/ res[this.k].line_id \notin DOMAIN _lines[1]
                 THEN Raises(i, this.k)
                 ELSE /\ GoesOnWith(i, [ this EXCEPT !.at = "store",
                                                     !.k = this.k + 1 ],
                                     FALSE)
                      /\ _lines' = << WithPosition(_lines[1], res[this.k]) >>

(* application.py line 729: the call returns the update_computation it    *)
(* was given plus one, which Dash writes to the store.                    *)
ComputeLineReturn ==
    /\ pc = "app"
    /\ CallFrame
    /\ \E i \in 1 .. Len(running) :
          LET this == running[i]
              res == compute_lines(this.line_ids_subset, this.call)
          IN  /\ this.at = "store"
              /\ this.k > Len(res)
              /\ update_computation' = this.update_computation + 1
              /\ running' = Without(running, i)
              /\ calls' = [ calls EXCEPT !.compute_line =
                                << Ended("update_computation", this,
                                         Len(res)) >> ]
              /\ UNCHANGED _lines

(* application.py lines 279-281: the setter of PeakFinder.lines, called  *)
(* by the code that holds the application.  The calls of compute_line in  *)
(* progress are marked: lines was assigned while they ran.                *)
SetLines ==
    /\ pc = "app"
    /\ Assigns
    /\ calls' = NoReturn
    /\ _lines' \in LinesValues \ { _lines }
    /\ running' = [ i \in 1 .. Len(running) |->
                       [ Detached(running[i], _lines)
                           EXCEPT !.assigned = TRUE ] ]
    /\ UNCHANGED << instance, objects, layout, line_ids, line_indices,
                    update_from_property_groups, update_computation, triggers,
                    ac_triggers, li_triggers, pending, started, cause >>

(* application.py lines 547-572: get_line_ids on its own.  The arguments  *)
(* of a call are the options of the dropdown, one of their values or None, *)
(* and a number of lines or None.                                          *)
InitLineIds ==
    /\ full_anomalies = << >>
    /\ max_migration = 0
    /\ min_channels = 0
    /\ n_groups = 1
    /\ max_separation = 0
    /\ sampling = 1
    /\ tie = "stable"
    /\ pc = "call"
    /\ ind = 1
    /\ group_id = -1
    /\ full_group_ids = << >>
    /\ groups = << >>
    /\ passes = 0
    /\ next_id = 1
    /\ merge_calls = 0
    /\ seeds = << >>
    /\ outputs = << >>
    /\ _groups = << >>
    /\ compute_calls = 0
    /\ _channels = << >>
    /\ results = << >>
    /\ near_peaks = << >>
    /\ _lines = << >>
    /\ objects = << >>
    /\ layout = LayoutStart
    /\ line_ids = << >>
    /\ line_indices = << >>
    /\ update_from_property_groups = FALSE
    /\ update_computation = 0
    /\ triggers = {}
    /\ ac_triggers = {}
    /\ li_triggers = {}
    /\ pending = NonePending
    /\ running = << >>
    /\ started = 0
    /\ cause = "other"
    /\ acted = [ user |-> 0, holder |-> 0 ]
    /\ \E length \in 1 .. MaxLines :
          \E line_id \in Optional({ line_id_options[k].value :
                                       k \in 1 .. length }),
             n_lines \in Optional(NLinesCalls) :
             calls = [ get_line_ids |->
                           << [ options |-> SubSeq(line_id_options, 1, length),
                                line_id |-> line_id,
                                n_lines |-> n_lines ] >>,
                       compute_line |-> << >> ]

(* The call: its output goes to the line_ids store unless it is           *)
(* no_update.                                                             *)
CallGetLineIds ==
    /\ pc = "call"
    /\ pc' = "got"
    /\ LET out == get_line_ids(calls.get_line_ids[1].options,
                               calls.get_line_ids[1].line_id,
                               calls.get_line_ids[1].n_lines)
       IN  /\ results' = << out >>
           /\ line_ids' = IF out = no_update THEN line_ids ELSE out
    /\ UNCHANGED << params, ind, group_id, full_group_ids, groups, passes,
                    next_id, merge_calls, seeds, outputs, _groups,
                    _channels, compute_calls, near_peaks, _lines, objects,
                    layout,
                    line_indices,
                    update_from_property_groups, update_computation, triggers,
                    ac_triggers, li_triggers, pending, running, started,
                    cause, acted, calls >>

NextLineIds == CallGetLineIds

SpecLineIds == InitLineIds /\ [][NextLineIds]_vars

NextApp ==
    \/ PickLine
    \/ SetNLines
    \/ SetLineField
    \/ SetMaskingData
    \/ FlipSign
    \/ InputChange
    \/ UpdatePropertyGroups
    \/ UpdateActiveChannels
    \/ MaskData
    \/ UpdateLineIdOptions
    \/ GetLineIds
    \/ GetLineIndices
    \/ ComputeLineStart
    \/ ComputeLineSelect
    \/ ComputeLineSubset
    \/ ComputeLineTest
    \/ ComputeLineReset
    \/ ComputeLineIterate
    \/ ComputeLineCollect
    \/ ComputeLineRemove
    \/ ComputeLineEntry
    \/ ComputeLineCreate
    \/ ComputeLineAnomalies
    \/ ComputeLinePosition
    \/ ComputeLineReturn
    \/ SetLines

SpecApp == InitApp /\ [][NextApp]_vars

(***************************************************************************)
(* Properties of the application.                                          *)
(***************************************************************************)

(* The step taken is the return of a call of compute_line that has asked  *)
(* the driver; calls'.compute_line describes the call.                    *)
Returns ==
    /\ Len(running') < Len(running)
    /\ calls'.compute_line[1].out = "update_computation"

(* The step taken is a call of compute_line. *)
Called == triggers # {} /\ triggers' = {}

(* The last call of compute_line to end has returned after the driver. *)
JustComputed ==
    /\ calls.compute_line # << >>
    /\ calls.compute_line[1].out = "update_computation"

(* The step taken is one of the call of compute_line numbered n: the     *)
(* call has moved on or has ended.                                        *)
StepOf(n) ==
    \E i \in 1 .. Len(running) :
        /\ running[i].call = n
        /\ \A j \in 1 .. Len(running') :
               running'[j].call = n =>
                   << running'[j].at, running'[j].k, running'[j].keys >>
                       # << running[i].at, running[i].k, running[i].keys >>

(* C26: when a call of compute_line that does not return no_update        *)
(* returns, every line id of its line_ids that it has asked the driver    *)
(* for, or that it has found in the cache as the driver had computed it   *)
(* for an earlier call, has an entry in the cache, whatever the inputs    *)
(* that triggered the call.  The calls during which lines was assigned    *)
(* from outside are left out.                                             *)
C26_EveryRequestedLineCached ==
    [][ (Returns /\ ~calls'.compute_line[1].assigned) =>
          \A line \in Range(calls'.compute_line[1].line_ids_subset)
                      \cup calls'.compute_line[1].cached :
              line \in DOMAIN _lines'[1] ]_vars

(* C27: when a call of compute_line that does not return no_update        *)
(* returns, every key of the cache is one of the line ids of the call.    *)
(* The calls during which lines was assigned from outside are left out.   *)
C27_NoStaleLine ==
    [][ (Returns /\ ~calls'.compute_line[1].assigned) =>
          DOMAIN _lines'[1] \subseteq Range(calls'.compute_line[1].line_ids)
      ]_vars

C29_ColourNeverRecomputes ==
    [][ /\ cause' = "color_picker" => ~update_from_property_groups'
        /\ (cause = "color_picker" /\ cause' = "color_picker"
            /\ ac_triggers # {} /\ ac_triggers' = {}) =>
               /\ triggers' = triggers
               /\ li_triggers' = li_triggers
               /\ pending' = pending
        /\ (cause = "color_picker" /\ Called) =>
               /\ calls'.compute_line[1].out = "no_update"
               /\ running' = running
               /\ _lines' = _lines
               /\ update_computation' = update_computation ]_vars

(* The callbacks that follow a change of colour have run while lines were *)
(* in the cache and the stores were filled.                               *)
C29_Witness ==
    /\ cause = "color_picker"
    /\ Settled
    /\ running = << >>
    /\ calls.compute_line # << >>
    /\ calls.compute_line[1].out = "no_update"
    /\ "property_groups" \in calls.compute_line[1].triggers
    /\ objects # << >>
    /\ line_ids # << >>
    /\ line_indices # << >>
    /\ _lines # << >>
    /\ DOMAIN _lines[1] # {}

(* C30: get_line_ids returns no_update when line_id or n_lines is None,   *)
(* and otherwise the option values from index max(0, i - n_lines) to      *)
(* index min(len - 1, i + n_lines), i being the index of line_id: the     *)
(* result holds line_id and at most 2 n_lines + 1 ids, in option order.   *)
C30_WindowAroundLine ==
    pc = "got" =>
        LET call == calls.get_line_ids[1]
            out == results[1]
        IN  IF call.line_id = << >> \/ call.n_lines = << >>
            THEN out = no_update /\ line_ids = << >>
            ELSE LET length == Len(call.options)
                     i == CHOOSE k \in 0 .. length - 1 :
                              call.options[k + 1].value = call.line_id[1]
                     n == call.n_lines[1]
                     first == SetMax({ 0, i - n })
                     last == SetMin({ length - 1, i + n })
                 IN  /\ out # no_update
                     /\ line_ids = out
                     /\ Len(out[1]) = last - first + 1
                     /\ \A j \in 1 .. Len(out[1]) :
                            out[1][j] = call.options[first + j].value
                     /\ call.line_id[1] \in Range(out[1])
                     /\ Len(out[1]) <= 2 * n + 1

(* A call whose window is cut at both ends of the options and holds more  *)
(* than the line asked for.                                               *)
C30_Witness ==
    /\ pc = "got"
    /\ results[1] # no_update
    /\ calls.get_line_ids[1].n_lines # << >>
    /\ Len(results[1][1]) > 1
    /\ Len(results[1][1]) = Len(calls.get_line_ids[1].options)
    /\ Len(results[1][1]) < 2 * calls.get_line_ids[1].n_lines[1] + 1
    /\ calls.get_line_ids[1].line_id[1] # results[1][1][1]

=============================================================================
